---- MODULE Spec2Model ----
(***************************************************************************)
(* A model of pychecker: the Validator protocol (validators.py), the lazy  *)
(* proxies, the settings cascade (config.py), the decorator entry point    *)
(* (decorators.py) and the validating function wrapper (wrappers.py).      *)
(***************************************************************************)
EXTENDS Integers, Sequences, FiniteSets, TLC

VARIABLES
    vd,        \* protocol: the validator under examination
    val,       \* protocol: the value handed to it
    tres,      \* protocol: what test(val) did
    vres,      \* protocol: what validate(val, context) did
    vctx,      \* protocol: the context validate() is called with
    items,     \* iterator: the items the underlying sequence holds
    child,     \* iterator: the child validator of the Iterator-of / Iterable-of validator
    ikind,     \* iterator: "Iterator" | "Iterable", the validator the value is given to
    isrc,      \* iterator: the value validated, ListV (a list) or IterV (an iterator)
    pulled,    \* iterator: how many items the underlying iterator has handed out
    pulls,     \* iterator: how many times next() was called on proxies over it
    got,       \* iterator: the items the proxy iterator returned, in order
    ipc,       \* iterator: "idle" | "new" | "proxy" (an iterable proxy, not
               \*           iterated yet) | "run" (a proxy iterator exists) | "raised"
    ierr,      \* iterator: the exception the last pull raised
    iters,     \* iterator: how many times iter() was called on the iterable proxy
    done,      \* iterator: what each iteration that reached the end returned
    gset,      \* settings: global_settings._entries
    mset,      \* settings: ModuleSettingsProxy._settings, per module
    sres,      \* settings: the exception of the last assignment, or "ok"
    sop,       \* settings: the assignment that raised it, if the last one raised
    decos,     \* decorator: the checked instances that exist
    built,     \* decorator: what the last build_wrapper run of each did
    nbuilt,    \* decorator: how many times build_wrapper ran for each
    wraps,     \* wrapper: the ValidateFuncWrapper instances constructed
    cache,     \* wrapper: the key held by lru_cache(maxsize=1) of param_validators
    compiled,  \* wrapper: times each wrapper's parameter validators were compiled
    last,      \* wrapper: record of the last call made through a wrapper
    pcall,     \* callable proxy: record of the last call made through the proxy
    pann,      \* compiler: the annotation handed to parse_annotation
    popts,     \* compiler: the options mapping handed to it
    parsed     \* compiler: what parse_annotation did

vars == <<vd, val, tres, vres, vctx, items, child, ikind, isrc, pulled, pulls, got,
          ipc, ierr, iters, done,
          gset, mset, sres, sop, decos, built, nbuilt, wraps, cache, compiled, last,
          pcall, pann, popts, parsed>>

protoVars == <<vd, val, tres, vres, vctx>>
iterVars == <<items, child, ikind, isrc, pulled, pulls, got, ipc, ierr, iters, done>>
setVars == <<gset, mset, sres, sop>>
decoVars == <<decos, built, nbuilt>>
wrapVars == <<wraps, cache, compiled, last>>
proxyVars == <<pcall>>
compVars == <<pann, popts, parsed>>

-----------------------------------------------------------------------------
(* Values.  A value is its runtime type, a name that identifies the object *)
(* and, for the result of a conversion, the method that produced it.       *)

Val(t, n) == [t |-> t, n |-> n, conv |-> ""]

NoneV == Val("NoneType", "None")
Int1 == Val("int", "1")
Int2 == Val("int", "2")
Int0 == Val("int", "0")
EmptyStr == Val("str", "")
TrueV == Val("bool", "True")
FalseV == Val("bool", "False")
Float15 == Val("float", "1.5")
FloatInf == Val("float", "inf")
StrA == Val("str", "a")
Cplx == Val("complex", "1j")
ListV == Val("list", "[1, 2]")
IterV == Val("list_iterator", "iter([1, 2])")
Fn1 == Val("function", "fn1")
Fn2 == Val("function", "fn2")
Fn3 == Val("function", "fn3")
Fn3d == Val("function", "fn3d")
FnV == Val("function", "fnv")
\* the builtin type slice: callable, and inspect.signature finds no signature for it
SliceT == Val("type", "slice")
\* an instance of the class A that declares a wrapped method, and of its subclass B
InstA == Val("A", "A()")
InstB == Val("B", "B()")
NoV == Val("-", "-")

\* type(value) == t, and issubclass as isinstance uses it (bool derives from int)
IsSubclass(t, u) == t = u \/ (t = "bool" /\ u = "int") \/ (t = "B" /\ u = "A")

IsInstance(v, types) == \E u \in types : IsSubclass(v.t, u)

IsExactType(v, types) == \E u \in types : v.t = u

\* hasattr(value, attr) for the conversion methods make_cast looks for
HasAttr(v, attr) ==
    CASE v.t \in {"int", "bool", "float"} ->
            attr \in {"__int__", "__trunc__", "__bool__", "__str__", "__float__"}
      [] v.t = "complex" -> attr \in {"__bool__", "__str__", "__complex__"}
      [] v.t = "NoneType" -> attr \in {"__bool__", "__str__"}
      [] v.t = "bytes" -> attr \in {"__str__", "__bytes__"}
      [] OTHER -> attr = "__str__"

\* the (attr, cls) table of make_cast, in the order the dict is walked
CastMethods ==
    << <<"__int__", "int">>, <<"__trunc__", "int">>, <<"__bool__", "bool">>,
       <<"__str__", "str">>, <<"__float__", "float">>,
       <<"__complex__", "complex">>, <<"__bytes__", "bytes">> >>

\* cast_value() raises for an infinite float asked for an integer, and for a
\* class, whose method of that name is unbound
CastRaises(v, attr) ==
    \/ v.t = "float" /\ v.n = "inf" /\ attr \in {"__int__", "__trunc__"}
    \/ v.t = "type"

CastError(v) == IF v.t = "type" THEN "TypeError" ELSE "OverflowError"

CastValue(v, attr, cls) == [t |-> cls, n |-> v.n, conv |-> attr]

IsIterator(v) == v.t \in {"list_iterator", "IteratorProxy"}

IsIterable(v) == IsIterator(v) \/ v.t \in {"list", "str", "bytes", "IterableProxy"}

IsCallable(v) == v.t \in {"function", "type", "CallableProxy"}

\* bool(value)
Truthy(v) == v \notin {NoneV, FalseV, Int0, EmptyStr}

-----------------------------------------------------------------------------
(* Exceptions and results.                                                 *)

Exc(kind, func, param, expected, gotT, details, message) ==
    [kind |-> kind, func |-> func, param |-> param, expected |-> expected,
     got |-> gotT, details |-> details, message |-> message]

NoExc == Exc("-", <<>>, <<>>, <<>>, <<>>, <<>>, <<>>)

ValidationError(func, param, expected, gotT, details, message) ==
    Exc("ValidationError", func, param, expected, gotT, details, message)

OtherError(kind) == Exc(kind, <<>>, <<>>, <<>>, <<>>, <<>>, <<>>)

Ok(b, v) == [st |-> "ok", b |-> b, val |-> v, exc |-> NoExc]

Raise(e) == [st |-> "raise", b |-> FALSE, val |-> NoV, exc |-> e]

NotRun == [st |-> "none", b |-> FALSE, val |-> NoV, exc |-> NoExc]

\* the context dictionary validate() receives; {} is the default
Ctx(func, param) == [func |-> func, param |-> param]

NoCtx == Ctx(<<>>, <<>>)

-----------------------------------------------------------------------------
(* Signatures and argument binding (inspect.Signature.bind followed by     *)
(* apply_defaults, which is also how a Python call binds its arguments).   *)

Param(name, kind, hasDefault, default, ann) ==
    [name |-> name, kind |-> kind, hasDefault |-> hasDefault,
     default |-> default, ann |-> ann]

NoKw == [n \in {} |-> NoV]

Min(a, b) == IF a < b THEN a ELSE b

ParamsOfKind(sig, kinds) == SelectSeq(sig, LAMBDA p : p.kind \in kinds)

ParamNames(sig, kinds) == {sig[i].name : i \in {j \in DOMAIN sig : sig[j].kind \in kinds}}

ParamNamed(sig, name) == sig[CHOOSE i \in DOMAIN sig : sig[i].name = name]

Bind(sig, args, kwargs) ==
    LET pos == ParamsOfKind(sig, {"POS"})
        named == ParamNames(sig, {"POS", "KWONLY"})
        hasVar == ParamNames(sig, {"VARPOS"}) # {}
        hasKw == ParamNames(sig, {"VARKW"}) # {}
        npos == Min(Len(args), Len(pos))
        byPos == {pos[i].name : i \in 1..npos}
        given == byPos \cup (DOMAIN kwargs \cap named)
        ok == /\ (Len(args) <= Len(pos) \/ hasVar)
              /\ DOMAIN kwargs \cap byPos = {}
              /\ (DOMAIN kwargs \subseteq named \/ hasKw)
              /\ \A n \in named \ given : ParamNamed(sig, n).hasDefault
        valueOf(n) ==
            IF n \in byPos
            THEN args[CHOOSE i \in 1..npos : pos[i].name = n]
            ELSE IF n \in DOMAIN kwargs THEN kwargs[n]
            ELSE ParamNamed(sig, n).default
    IN  IF ok
        THEN [ok |-> TRUE,
              pos |-> [n \in named |-> valueOf(n)],
              var |-> SubSeq(args, npos + 1, Len(args)),
              kw |-> [n \in DOMAIN kwargs \ named |-> kwargs[n]]]
        ELSE [ok |-> FALSE, pos |-> NoKw, var |-> <<>>, kw |-> NoKw]

-----------------------------------------------------------------------------
(* Validators.  One record shape for every class of validators.py; func    *)
(* names the wrapped predicate of a UserValidator or, for kind "Custom",   *)
(* the __call__ a Validator subclass defines.                              *)

Vd(kind, types, sub, compat, func, children) ==
    [kind |-> kind, types |-> types, check_subclasses |-> sub,
     check_compatible_classes |-> compat, func |-> func, children |-> children]

AnyValidator == Vd("Any", {}, FALSE, FALSE, "", <<>>)
NoneValidator == Vd("None", {}, FALSE, FALSE, "", <<>>)
TrueValidator == Vd("True", {}, FALSE, FALSE, "", <<>>)
FalseValidator == Vd("False", {}, FALSE, FALSE, "", <<>>)
TypeValidator(types, sub, compat) == Vd("Type", types, sub, compat, "", <<>>)
UserValidator(func) == Vd("User", {}, FALSE, FALSE, func, <<>>)
CustomValidator(func) == Vd("Custom", {}, FALSE, FALSE, func, <<>>)
IteratorValidator(children) == Vd("Iterator", {}, FALSE, FALSE, "", children)
IterableValidator(children) == Vd("Iterable", {}, FALSE, FALSE, "", children)
CallableValidator(children) == Vd("Callable", {}, FALSE, FALSE, "", children)
OptionalValidator(children) == Vd("Optional", {}, FALSE, FALSE, "", children)

num_children(v) == Len(v.children)

(* Shape descriptions (annotations) as parse_annotation tells them apart. *)
Shape(k, v, types, func, args) ==
    [k |-> k, v |-> v, types |-> types, func |-> func, args |-> args]

EmptyShape == Shape("empty", AnyValidator, {}, "", <<>>)
NoneTypeShape == Shape("None", AnyValidator, {}, "", <<>>)
ValidatorShape(v) == Shape("validator", v, {}, "", <<>>)
ClassShape(t) == Shape("class", AnyValidator, {t}, "", <<>>)
\* a list of classes
ClassesShape(ts) == Shape("classes", AnyValidator, ts, "", <<>>)
\* a type hint: a class of collections.abc, or typing's kind[args]
HintShape(kind, args) == Shape("hint", AnyValidator, {}, kind, args)
\* a function that is none of the above
PredicateShape(f) == Shape("predicate", AnyValidator, {}, f, <<>>)
\* a subclass of Validator, given as the class; v is what calling it builds
ValidatorClassShape(v) == Shape("vclass", v, {}, "", <<>>)
\* the literals True and False
BoolShape(b) == Shape("bool", AnyValidator, {}, IF b THEN "True" ELSE "False", <<>>)
\* an object that is none of the above: a number, a non-empty string, a
\* list that holds something that is not a class
OtherShape(what) == Shape("other", AnyValidator, {}, what, <<>>)

\* the signatures of the callable values handed to validators
SigOf(v) ==
    CASE v.n = "fn1" -> <<Param("a", "POS", FALSE, NoV, EmptyShape)>>
      [] v.n = "fn2" -> <<Param("a", "POS", FALSE, NoV, EmptyShape),
                          Param("b", "POS", FALSE, NoV, EmptyShape)>>
      [] v.n = "fn3" -> <<Param("a", "POS", FALSE, NoV, EmptyShape),
                          Param("b", "POS", FALSE, NoV, EmptyShape),
                          Param("c", "POS", FALSE, NoV, EmptyShape)>>
      [] v.n = "fn3d" -> <<Param("a", "POS", FALSE, NoV, EmptyShape),
                           Param("b", "POS", FALSE, NoV, EmptyShape),
                           Param("c", "POS", TRUE, NoneV, EmptyShape)>>
      [] v.n = "fnv" -> <<Param("a", "VARPOS", FALSE, NoV, EmptyShape)>>
      [] OTHER -> <<>>

\* signature(value) returns; it raises ValueError for some builtins
Introspectable(v) == v.n # "slice"

(* What Validator.__call__ hands back: None, a bool, some other object, or *)
(* a generator.  A generator is described by its first signal (yielded, or *)
(* returned when it finishes without yielding, or an exception) and by     *)
(* what it does when it is resumed with send(context).                     *)
Out(shape, first, yielded, then, thenV, exc) ==
    [shape |-> shape, first |-> first, yielded |-> yielded, then |-> then,
     thenV |-> thenV, exc |-> exc]

RetNone == Out("none", "None", FALSE, "stop", NoV, NoExc)
RetBool(b) == Out("bool", IF b THEN "True" ELSE "False", FALSE, "stop", NoV, NoExc)
RetOther == Out("other", "other", FALSE, "stop", NoV, NoExc)
CallRaises(e) == Out("raise", "raise", FALSE, "stop", NoV, e)
GenReturn(first) == Out("gen", first, FALSE, "stop", NoV, NoExc)
GenRaise(e) == Out("gen", "raise", FALSE, "stop", NoV, e)
GenYield(first, then, thenV, exc) == Out("gen", first, TRUE, then, thenV, exc)

CustomMessage == ValidationError(<<>>, <<>>, <<>>, <<>>, <<>>, <<"custom message">>)

Replacement(x) == [t |-> x.t, n |-> x.n, conv |-> "replacement"]

\* the bodies of the user predicates and of the Validator subclasses used
FuncOutcome(func, x) ==
    CASE func = "ret_true" -> RetBool(TRUE)
      [] func = "ret_false" -> RetBool(FALSE)
      [] func = "ret_none" -> RetNone
      [] func \in {"ret_other", "ret_one", "ret_zero"} -> RetOther
      [] func = "is_int" -> RetBool(IsInstance(x, {"int"}))
      [] func = "gen_empty" -> GenReturn("None")
      [] func = "gen_return_true" -> GenReturn("True")
      [] func = "gen_return_false" -> GenReturn("False")
      [] func = "gen_return_other" -> GenReturn("other")
      [] func = "gen_true" -> GenYield("True", "stop", NoV, NoExc)
      [] func = "gen_true_proxy" -> GenYield("True", "yield", Replacement(x), NoExc)
      [] func = "gen_false" -> GenYield("False", "stop", NoV, NoExc)
      [] func = "gen_false_again" -> GenYield("False", "yield", NoV, NoExc)
      [] func = "gen_false_custom" -> GenYield("False", "raise", NoV, CustomMessage)
      [] func = "gen_other" -> GenYield("other", "stop", NoV, NoExc)
      [] OTHER -> CallRaises(OtherError("ValueError"))

\* the object a predicate that is no generator function hands back
ReturnValue(func, x) ==
    CASE func = "ret_true" -> TrueV
      [] func = "ret_false" -> FalseV
      [] func = "ret_none" -> NoneV
      [] func = "ret_one" -> Int1
      [] func = "ret_zero" -> Int0
      [] func = "is_int" -> IF IsInstance(x, {"int"}) THEN TrueV ELSE FalseV
      [] OTHER -> Val("object", "object()")

RECURSIVE SetToSeq(_)
SetToSeq(S) ==
    IF S = {} THEN <<>>
    ELSE LET e == CHOOSE e \in S : TRUE IN <<e>> \o SetToSeq(S \ {e})

RECURSIVE niddle(_), niddles(_)
\* ', '.join(map(attrgetter('niddle'), children))
niddles(vs) ==
    IF vs = <<>> THEN <<>>
    ELSE niddle(Head(vs)) \o (IF Len(vs) > 1 THEN <<",">> ELSE <<>>) \o niddles(Tail(vs))

niddle(v) ==
    CASE v.kind = "Any" -> <<"any">>
      [] v.kind = "None" -> <<"None">>
      [] v.kind = "True" -> <<"any true value or statement">>
      [] v.kind = "False" -> <<"any false value or statement">>
      [] v.kind = "Type" -> SetToSeq(v.types)
      [] v.kind = "User" -> <<"...">>
      [] v.kind = "Iterator" ->
            <<"iterator">> \o
            (IF num_children(v) = 0 THEN <<>> ELSE <<"of">> \o niddle(v.children[1]))
      [] v.kind = "Iterable" ->
            <<"iterable">> \o
            (IF num_children(v) = 0 THEN <<>> ELSE <<"of">> \o niddle(v.children[1]))
      [] v.kind = "Callable" ->
            IF num_children(v) = 0 THEN <<"callable">>
            ELSE <<"callable(">>
                 \o niddles(SubSeq(v.children, 1, num_children(v) - 1))
                 \o <<")->">> \o niddle(v.children[num_children(v)])
      [] v.kind = "Optional" -> niddle(v.children[1]) \o <<"or None">>
      [] OTHER -> <<>>

TypeName(x) == IF x = NoneV THEN <<"None">> ELSE <<x.t>>

\* Validator.error and its overrides: the default violation
error(v, x, details, ctx) ==
    CASE v.kind = "User" ->
            ValidationError(ctx.func, ctx.param, <<>>, <<>>,
                            <<v.func, "returned False">>, <<>>)
      [] v.kind \in {"None", "Type"} ->
            ValidationError(ctx.func, ctx.param, niddle(v), TypeName(x), details, <<>>)
      [] OTHER ->
            ValidationError(ctx.func, ctx.param, niddle(v), <<>>, details, <<>>)

-----------------------------------------------------------------------------
(* The Validator protocol: __call__ of each class, test and validate.      *)

\* TypeValidator.make_cast: a generator that signals True before it converts
make_cast(v, x) ==
    LET usable == {i \in DOMAIN CastMethods :
                      /\ CastMethods[i][2] \in v.types
                      /\ HasAttr(x, CastMethods[i][1])
                      /\ ~(x.t = "complex" /\ CastMethods[i][2] \in {"float", "int"})}
    IN  IF usable = {} THEN GenReturn("False")
        ELSE LET i == CHOOSE i \in usable : \A j \in usable : i <= j
                 attr == CastMethods[i][1]
                 cls == CastMethods[i][2]
             IN  IF CastRaises(x, attr)
                 THEN GenYield("True", "raise", NoV, OtherError(CastError(x)))
                 ELSE GenYield("True", "yield", CastValue(x, attr, cls), NoExc)

\* a type check that takes subclasses whatever check_subclasses says
TypeValidatorCall_AlwaysSubclasses(v, x) ==
    IF ~IsInstance(x, v.types) /\ v.check_compatible_classes THEN make_cast(v, x)
    ELSE RetBool(IsInstance(x, v.types))

TypeValidatorCall(v, x) ==
    LET valid == IF v.check_subclasses THEN IsInstance(x, v.types)
                 ELSE IsExactType(x, v.types)
    IN  IF ~valid /\ v.check_compatible_classes THEN make_cast(v, x)
        ELSE RetBool(valid)

Proxy(kind, x) == [t |-> kind, n |-> x.n, conv |-> ""]

IteratorValidatorCall(v, x) ==
    IF ~IsIterator(x) THEN GenReturn("False")
    ELSE IF num_children(v) # 0
         THEN GenYield("True", "yield", Proxy("IteratorProxy", x), NoExc)
         ELSE GenYield("True", "stop", NoV, NoExc)

IterableValidatorCall(v, x) ==
    IF ~IsIterable(x) THEN GenReturn("False")
    ELSE IF num_children(v) # 0
         THEN GenYield("True", "yield", Proxy("IterableProxy", x), NoExc)
         ELSE GenYield("True", "stop", NoV, NoExc)

\* the arity check that only counts the parameters of the callable
CallableValidatorCall_CountOnly(v, x, ctx) ==
    IF ~IsCallable(x) THEN GenReturn("False")
    ELSE IF /\ Introspectable(x)
            /\ num_children(v) > 0
            /\ Len(SigOf(x)) # num_children(v) - 1
         THEN GenYield("False", "raise", NoV,
                       error(v, x, <<"Wrong number of parameters">>, ctx))
         ELSE IF num_children(v) # 0
              THEN GenYield("True", "yield", Proxy("CallableProxy", x), NoExc)
              ELSE GenYield("True", "stop", NoV, NoExc)

\* sig.bind(*self.children[:-1]): the parameter validators as positional
\* arguments; a callable without a signature skips the check
CallableValidatorCall(v, x, ctx) ==
    IF ~IsCallable(x) THEN GenReturn("False")
    ELSE IF /\ Introspectable(x)
            /\ num_children(v) > 0
            /\ ~Bind(SigOf(x), [i \in 1..(num_children(v) - 1) |-> NoV], NoKw).ok
         THEN GenYield("False", "raise", NoV,
                       error(v, x, <<"Wrong number of parameters">>, ctx))
         ELSE IF num_children(v) # 0
              THEN GenYield("True", "yield", Proxy("CallableProxy", x), NoExc)
              ELSE GenYield("True", "stop", NoV, NoExc)

RECURSIVE Call(_, _, _), test(_, _), validate(_, _, _)

\* an Optional validator that hands None to its child like any other value
OptionalValidatorCall_NoAbsent(v, x, ctx) ==
    LET t == test(v.children[1], x)
    IN  IF t.st = "raise" THEN GenRaise(t.exc)
        ELSE IF ~t.b THEN GenReturn("False")
        ELSE GenYield("True", "yield", x, NoExc)

OptionalValidatorCall(v, x, ctx) ==
    IF x = NoneV THEN GenReturn("True")
    ELSE LET t == test(v.children[1], x)
         IN  IF t.st = "raise" THEN GenRaise(t.exc)
             ELSE IF ~t.b THEN GenReturn("False")
             ELSE LET r == validate(v.children[1], x, ctx)
                  IN  IF r.st = "raise" THEN GenYield("True", "raise", NoV, r.exc)
                      ELSE GenYield("True", "yield", r.val, NoExc)

Call(v, x, ctx) ==
    CASE v.kind = "Any" -> RetBool(TRUE)
      [] v.kind = "None" -> RetBool(x = NoneV)
      [] v.kind = "True" -> RetBool(Truthy(x))
      [] v.kind = "False" -> RetBool(~Truthy(x))
      [] v.kind = "Type" -> TypeValidatorCall(v, x)
      [] v.kind \in {"User", "Custom"} -> FuncOutcome(v.func, x)
      [] v.kind = "Iterator" -> IteratorValidatorCall(v, x)
      [] v.kind = "Iterable" -> IterableValidatorCall(v, x)
      [] v.kind = "Callable" -> CallableValidatorCall(v, x, ctx)
      [] v.kind = "Optional" -> OptionalValidatorCall(v, x, ctx)

TypeErrorNotBool == OtherError("TypeError")

\* a first signal taken by its truth value, without the isinstance(valid, bool) check
FirstSignal_Truthy(r) ==
    IF r.first = "raise" THEN Raise(r.exc)
    ELSE Ok(r.first \notin {"False"}, NoV)

\* the first signal of a generator: next(result), or the value it returned
FirstSignal(r) ==
    IF r.first = "raise" THEN Raise(r.exc)
    ELSE IF r.yielded
         THEN IF r.first \in {"True", "False"} THEN Ok(r.first = "True", NoV)
              ELSE Raise(TypeErrorNotBool)
         ELSE IF r.first = "other" THEN Raise(OtherError("AssertionError"))
              ELSE Ok(r.first # "False", NoV)

\* a test that takes None for a failure
test_NoneFails(v, x) ==
    LET r == Call(v, x, NoCtx)
    IN  CASE r.shape = "raise" -> Raise(r.exc)
          [] r.shape = "other" -> Raise(TypeErrorNotBool)
          [] r.shape = "none" -> Ok(FALSE, NoV)
          [] r.shape = "bool" -> Ok(r.first = "True", NoV)
          [] r.shape = "gen" -> FirstSignal(r)

test(v, x) ==
    LET r == Call(v, x, NoCtx)
    IN  CASE r.shape = "raise" -> Raise(r.exc)
          [] r.shape = "other" -> Raise(TypeErrorNotBool)
          [] r.shape = "none" -> Ok(TRUE, NoV)
          [] r.shape = "bool" -> Ok(r.first = "True", NoV)
          [] r.shape = "gen" -> FirstSignal(r)

\* result.send(context) after the first signal
Resume(r) == IF r.yielded THEN r.then ELSE "stop"

\* the value handed back as it came, the second value of the generator dropped
Accept_KeepValue(r, x) ==
    IF Resume(r) = "raise" THEN Raise(r.exc) ELSE Ok(TRUE, x)

\* the check passed: the value, or the replacement the generator yields next
Accept(r, x) ==
    CASE Resume(r) = "yield" -> Ok(TRUE, r.thenV)
      [] Resume(r) = "raise" -> Raise(r.exc)
      [] OTHER -> Ok(TRUE, x)

\* the default error raised without resuming the generator
Reject_Default(v, r, x, ctx) == Raise(error(v, x, <<>>, ctx))

\* the check failed: the generator's own error, or else the default one
Reject(v, r, x, ctx) ==
    IF Resume(r) = "raise" THEN Raise(r.exc)
    ELSE Raise(error(v, x, <<>>, ctx))

validate(v, x, ctx) ==
    LET r == Call(v, x, ctx)
    IN  CASE r.shape = "raise" -> Raise(r.exc)
          [] r.shape = "other" -> Raise(TypeErrorNotBool)
          [] r.shape = "none" -> Ok(TRUE, x)
          [] r.shape = "bool" ->
                IF r.first = "True" THEN Ok(TRUE, x)
                ELSE Raise(error(v, x, <<>>, ctx))
          [] r.shape = "gen" ->
                LET s == FirstSignal(r)
                IN  IF s.st = "raise" THEN s
                    ELSE IF ~s.b THEN Reject(v, r, x, ctx)
                    ELSE Accept(r, x)

-----------------------------------------------------------------------------
(* The validators and values the protocol is exercised on.                 *)

TypeInt == TypeValidator({"int"}, TRUE, FALSE)

Funcs ==
    {"ret_true", "ret_false", "ret_none", "ret_other", "ret_one", "ret_zero",
     "is_int", "gen_empty",
     "gen_return_true", "gen_return_false", "gen_return_other", "gen_true",
     "gen_true_proxy", "gen_false", "gen_false_again", "gen_false_custom",
     "gen_other", "raises"}

LeafValidators ==
    {AnyValidator, NoneValidator, TrueValidator, FalseValidator, TypeInt,
     TypeValidator({"int"}, FALSE, FALSE),
     TypeValidator({"int"}, FALSE, TRUE),
     TypeValidator({"float"}, FALSE, TRUE),
     TypeValidator({"str"}, FALSE, TRUE),
     TypeValidator({"int", "str"}, FALSE, FALSE),
     TypeValidator({"float", "str"}, TRUE, FALSE),
     TypeValidator({"bool"}, TRUE, FALSE)}
    \cup {UserValidator(f) : f \in Funcs}

TreeValidators ==
    {IteratorValidator(<<>>), IteratorValidator(<<TypeInt>>),
     IterableValidator(<<>>), IterableValidator(<<TypeInt>>),
     CallableValidator(<<>>), CallableValidator(<<TypeInt, TypeInt, AnyValidator>>),
     CallableValidator(<<TypeInt, AnyValidator>>)}
    \cup {OptionalValidator(<<c>>) :
            c \in {TypeInt, TypeValidator({"int"}, FALSE, TRUE),
                   IteratorValidator(<<TypeInt>>), UserValidator("is_int"),
                   UserValidator("ret_other")}}

BuiltinValidators == LeafValidators \cup TreeValidators

Validators == BuiltinValidators \cup {CustomValidator(f) : f \in Funcs}

Values ==
    {NoneV, Int0, Int1, TrueV, FalseV, Float15, FloatInf, StrA, EmptyStr, Cplx, ListV, IterV,
     Fn1, Fn2, Fn3, Fn3d, FnV, SliceT}

Contexts == {NoCtx, Ctx(<<"f">>, <<"x">>)}

IdleProto ==
    /\ vd = AnyValidator /\ val = NoV /\ tres = NotRun /\ vres = NotRun
    /\ vctx = NoCtx

InitProto ==
    /\ vd \in Validators /\ val \in Values /\ vctx \in Contexts
    /\ tres = NotRun /\ vres = NotRun

\* validator.test(value)
DoTest ==
    /\ tres = NotRun
    /\ tres' = test(vd, val)
    /\ UNCHANGED <<vd, val, vres, vctx>>

\* validator.validate(value, context)
DoValidate ==
    /\ vres = NotRun
    /\ vres' = validate(vd, val, vctx)
    /\ UNCHANGED <<vd, val, tres, vctx>>

-----------------------------------------------------------------------------
(* The lazy iterator proxy.  Its consumer may call next() on it at any     *)
(* time, also after a pull has raised.                                     *)

MaxItems == 3

\* the number of pulls a consumer makes
MaxPulls == 4

ItemValues == {Int1, Int2, TrueV, StrA}

IterChildren ==
    {TypeInt, TypeValidator({"int"}, FALSE, FALSE), TypeValidator({"int"}, FALSE, TRUE),
     UserValidator("is_int")}

IterCtx == Ctx(<<"f">>, <<"it">>)

ItemSeqs == UNION {[1..n -> ItemValues] : n \in 0..MaxItems}

\* the number of times a consumer iterates an iterable proxy
MaxIters == 2

IdleIter ==
    /\ items = <<>> /\ child = TypeInt /\ ikind = "Iterator" /\ isrc = IterV
    /\ pulled = 0 /\ pulls = 0
    /\ got = <<>> /\ ipc = "idle" /\ ierr = NoExc /\ iters = 0 /\ done = <<>>

InitIter ==
    /\ items \in ItemSeqs /\ child \in IterChildren
    /\ ikind \in {"Iterator", "Iterable"} /\ isrc \in {ListV, IterV}
    /\ pulled = 0 /\ pulls = 0 /\ got = <<>> /\ ipc = "new" /\ ierr = NoExc
    /\ iters = 0 /\ done = <<>>

\* the validator the value is handed to; its proxies keep it
IterValidator ==
    IF ikind = "Iterator" THEN IteratorValidator(<<child>>) ELSE IterableValidator(<<child>>)

\* validator.validate(value, context): yields an IteratorProxy over the value,
\* or an IterableProxy that holds the value
IterValidate ==
    /\ ipc = "new"
    /\ \E r \in {validate(IterValidator, isrc, IterCtx)} :
          ipc' = CASE r.st = "ok" /\ r.val.t = "IteratorProxy" -> "run"
                   [] r.st = "ok" /\ r.val.t = "IterableProxy" -> "proxy"
                   [] OTHER -> "raised"
    /\ UNCHANGED <<items, child, ikind, isrc, pulled, pulls, got, ierr, iters, done>>

\* an iterable proxy that hands out again the iterator it made first
IterableProxyIter_Same ==
    /\ ipc \in {"proxy", "run"}
    /\ ikind = "Iterable"
    /\ iters < MaxIters
    /\ iters' = iters + 1
    /\ ipc' = "run"
    /\ got' = <<>>
    /\ ierr' = NoExc
    /\ UNCHANGED <<items, child, ikind, isrc, pulled, pulls, done>>

\* IterableProxy.__iter__: IteratorProxy(iter(self.wrapped), ...).  iter() of a
\* list is a new iterator at its start; iter() of an iterator is that iterator.
IterableProxyIter ==
    /\ ipc \in {"proxy", "run"}
    /\ ikind = "Iterable"
    /\ iters < MaxIters
    /\ iters' = iters + 1
    /\ ipc' = "run"
    /\ got' = <<>>
    /\ ierr' = NoExc
    /\ IF isrc = ListV THEN pulled' = 0 /\ pulls' = 0 ELSE UNCHANGED <<pulled, pulls>>
    /\ UNCHANGED <<items, child, ikind, isrc, done>>

\* the error IteratorProxy.__next__ raises for an item the child refuses
ItemError(item) ==
    error(IterValidator, isrc, TypeName(item) \o <<"value found while iterating">>, IterCtx)

\* an iteration that reaches the end for the first time has returned got
Finished == IF ierr.kind = "StopIteration" THEN done ELSE Append(done, got)

\* a proxy that reads one item ahead of the one it validates
IteratorProxyNext_Ahead ==
    /\ ipc = "run"
    /\ pulls < MaxPulls
    /\ pulls' = pulls + 1
    /\ IF pulls >= Len(items)
       THEN /\ ierr' = OtherError("StopIteration")
            /\ done' = Finished
            /\ UNCHANGED <<pulled, got>>
       ELSE LET item == items[pulls + 1]
                r == validate(child, item, NoCtx)
            IN  /\ pulled' = Min(pulls + 2, Len(items))
                /\ IF r.st = "ok"
                   THEN got' = Append(got, r.val) /\ ierr' = NoExc
                   ELSE /\ ierr' = ItemError(item)
                        /\ UNCHANGED got
                /\ UNCHANGED done
    /\ UNCHANGED <<items, child, ikind, isrc, ipc, iters>>

\* IteratorProxy.__next__
IteratorProxyNext ==
    /\ ipc = "run"
    /\ pulls < MaxPulls
    /\ pulls' = pulls + 1
    /\ IF pulled = Len(items)
       THEN /\ ierr' = OtherError("StopIteration")
            /\ done' = Finished
            /\ UNCHANGED <<pulled, got>>
       ELSE LET item == items[pulled + 1]
                r == validate(child, item, NoCtx)
            IN  /\ pulled' = pulled + 1
                /\ IF r.st = "ok"
                   THEN got' = Append(got, r.val) /\ ierr' = NoExc
                   ELSE /\ ierr' = IF r.exc.kind = "ValidationError"
                                   THEN ItemError(item)
                                   ELSE r.exc
                        /\ UNCHANGED got
                /\ UNCHANGED done
    /\ UNCHANGED <<items, child, ikind, isrc, ipc, iters>>

-----------------------------------------------------------------------------
(* Settings: config.py.                                                    *)

all_settings ==
    {"enabled", "ignore_subclasses", "match_self", "match_args", "match_varargs",
     "match_defaults", "match_return"}

global_settings ==
    [k \in all_settings |->
        IF k \in {"match_self", "match_args", "match_varargs", "match_return"}
        THEN "True" ELSE "False"]

UserModules == {"m1", "m2"}

\* get_caller_module() names decorators when build_wrapper reads the settings
Modules == UserModules \cup {"decorators"}

\* the option names and values the assignments of the model use
AssignedKeys == {"enabled", "foo"}
AssignedValues == {"True", "False", "1"}

NoEntries == [k \in all_settings |-> "unset"]

\* an assignment: how it was made, and its key
Assignment(via, key) == [via |-> via, key |-> key]

NoAssignment == Assignment("-", "")

IdleSettings ==
    /\ gset = global_settings /\ mset = [m \in Modules |-> NoEntries] /\ sres = "ok"
    /\ sop = NoAssignment

\* Settings.__setitem__: the exception it raises, or "ok"
SetItemCheck(key, value) ==
    IF key \notin all_settings THEN "KeyError"
    ELSE IF value \notin {"True", "False"} THEN "TypeError"
    ELSE "ok"

\* what is kept of an assignment: nothing, unless __setitem__ raises
Rejected(via, key, value) ==
    IF SetItemCheck(key, value) = "ok" THEN NoAssignment ELSE Assignment(via, key)

\* settings[key] = value, evaluated in module m
SetItem(m, key, value) ==
    /\ sres' = SetItemCheck(key, value)
    /\ mset' = IF SetItemCheck(key, value) = "ok"
               THEN [mset EXCEPT ![m][key] = value] ELSE mset
    /\ sop' = Rejected("setitem", key, value)
    /\ UNCHANGED gset

\* settings.key = value, evaluated in module m, for a name without a leading
\* underscore: ModuleSettings.__setattr__ hands it to __setitem__, whose
\* exceptions it lets through
SetAttr(m, key, value) ==
    /\ sres' = SetItemCheck(key, value)
    /\ mset' = IF SetItemCheck(key, value) = "ok"
               THEN [mset EXCEPT ![m][key] = value] ELSE mset
    /\ sop' = Rejected("setattr", key, value)
    /\ UNCHANGED gset

\* del settings[key], evaluated in module m: a missing entry is ignored
DelItem(m, key) ==
    /\ mset' = IF key \in all_settings THEN [mset EXCEPT ![m][key] = "unset"] ELSE mset
    /\ sres' = "ok"
    /\ sop' = NoAssignment
    /\ UNCHANGED gset

\* global_settings[key] = value
GlobalSetItem(key, value) ==
    /\ sres' = SetItemCheck(key, value)
    /\ gset' = IF SetItemCheck(key, value) = "ok"
               THEN [gset EXCEPT ![key] = value] ELSE gset
    /\ sop' = Rejected("global", key, value)
    /\ UNCHANGED mset

\* MappingBundle(global_settings, self._entries).get(key): the last mapping first
MappingBundleGet(g, entries, key) ==
    IF entries[key] # "unset" THEN entries[key] ELSE g[key]

\* ModuleSettings.__getitem__ for the module's settings
GetItem(m, key) ==
    IF key \notin all_settings THEN "KeyError"
    ELSE MappingBundleGet(gset, mset[m], key)

\* ModuleSettingsProxy.__getattribute__ of a name the proxy object itself lacks:
\* ModuleSettings.__getattribute__ looks the name up as a setting
GetAttribute(m, name) ==
    IF GetItem(m, name) = "KeyError" THEN "AttributeError" ELSE GetItem(m, name)

-----------------------------------------------------------------------------
(* The decorator: decorators.py.                                           *)

Decos == {"d1", "d2"}

MaxBuilds == 4

FuncNames == {"add", "add_v", "f_all", "g_def"}

\* the functions the decorator is put on
DecoratedFuncs == {"add", "f_all"}

\* the keyword arguments given to @checked(...)
NoOverrides == [k \in {} |-> "True"]

DecoratorKwargs ==
    {NoOverrides, [k \in {"enabled"} |-> "False"], [k \in {"match_args"} |-> "False"]}

NoDeco == [made |-> FALSE, func |-> "-", kwargs |-> NoOverrides]

NotBuilt == [st |-> "none", exc |-> "-", kwargs |-> NoOverrides, options |-> NoEntries]

IdleDeco ==
    /\ decos = [d \in Decos |-> NoDeco]
    /\ built = [d \in Decos |-> NotBuilt]
    /\ nbuilt = [d \in Decos |-> 0]

(* build_wrapper.  options = settings.copy() raises AttributeError: the    *)
(* settings object is a ModuleSettingsProxy, which defines no copy, and    *)
(* its __getattribute__ turns the unknown name into a lookup of a setting  *)
(* called "copy".  Nothing after that line is reached.                     *)
build_wrapper(func, nargs, kwargs) ==
    [st |-> "raise",
     exc |-> IF nargs > 0 THEN "ValueError"
             ELSE IF GetAttribute("decorators", "copy") = "AttributeError"
                  THEN "AttributeError" ELSE "TypeError",
     kwargs |-> kwargs,
     options |-> NoEntries]

\* self._wrapper read through checked.__getattribute__: when the property
\* raises, the except branch reads it again, so a build that raises runs twice
BuildRuns(b) == IF b.st = "raise" THEN 2 ELSE 1

\* @checked above a function: a checked instance, whose wrapper is built on first use
DecorateBare(d, f) ==
    /\ ~decos[d].made
    /\ decos' = [decos EXCEPT ![d] = [made |-> TRUE, func |-> f, kwargs |-> NoOverrides]]
    /\ UNCHANGED <<built, nbuilt>>

\* @checked(**kwargs) above a function: checked.__call__ returns self._wrapper
DecorateWithOptions(d, f, nargs, kwargs) ==
    /\ ~decos[d].made
    /\ LET b == build_wrapper(f, nargs, kwargs)
       IN  /\ nbuilt[d] + BuildRuns(b) <= MaxBuilds
           /\ built' = [built EXCEPT ![d] = b]
           /\ decos' = IF b.st = "raise" THEN decos
                       ELSE [decos EXCEPT ![d] = [made |-> TRUE, func |-> f, kwargs |-> kwargs]]
           /\ nbuilt' = [nbuilt EXCEPT ![d] = @ + BuildRuns(b)]

\* a call of the checked instance: checked.__call__ goes through self._wrapper,
\* whose lru_cache keeps no entry for a build that raised
InvokeChecked(d) ==
    /\ decos[d].made
    /\ LET b == build_wrapper(decos[d].func, 0, decos[d].kwargs)
       IN  /\ nbuilt[d] + BuildRuns(b) <= MaxBuilds
           /\ built' = [built EXCEPT ![d] = b]
           /\ nbuilt' = [nbuilt EXCEPT ![d] = @ + BuildRuns(b)]
    /\ UNCHANGED decos

-----------------------------------------------------------------------------
(* The annotation compiler, as far as the wrapped functions below use it.  *)

Compiled(v) == [ok |-> TRUE, v |-> v, exc |-> NoExc]

CompileError(kind) == [ok |-> FALSE, v |-> AnyValidator, exc |-> OtherError(kind)]

\* options=None, the default of parse_annotation
NoOptions == [k \in {"None"} |-> "None"]

\* dict(settings): the keys of the mapping come from ModuleSettings.__iter__,
\* which yields (key, value) pairs, and looking up the first pair as a key
\* raises KeyError
DictOfSettings == CompileError("KeyError")

\* TypeValidator(x, check_subclasses=not options['ignore_subclasses'],
\*               check_compatible_types=options['match_compatible_types']):
\* no settings mapping holds the second key, and the constructor takes no
\* keyword of that name
ParseTypes(types, options) ==
    IF "ignore_subclasses" \notin DOMAIN options
          \/ "match_compatible_types" \notin DOMAIN options
    THEN CompileError("KeyError")
    ELSE CompileError("TypeError")

\* the kinds of type hint that have a validator
ParseHint(kind, vs) ==
    CASE kind = "Iterator" -> Compiled(IteratorValidator(vs))
      [] kind = "Iterable" -> Compiled(IterableValidator(vs))
      [] kind = "Callable" -> Compiled(CallableValidator(vs))
      [] kind = "Union" ->
            IF Len(vs) = 2 /\ vs[2].kind = "None"
            THEN Compiled(OptionalValidator(SubSeq(vs, 1, 1)))
            ELSE Compiled(AnyValidator)
      [] OTHER -> CompileError("NotImplementedError")

RECURSIVE parse_annotation(_, _)
(* parse_annotation(x, options).  The arguments of a type hint are parsed  *)
(* by map(parse_annotation, args), that is with options=None.              *)
parse_annotation(x, options) ==
    IF options = NoOptions THEN DictOfSettings
    ELSE CASE x.k = "None" -> Compiled(NoneValidator)
           [] x.k = "empty" -> Compiled(AnyValidator)
           [] x.k \in {"validator", "vclass"} -> Compiled(x.v)
           [] x.k = "hint" ->
                 LET cs == [i \in DOMAIN x.args |-> parse_annotation(x.args[i], NoOptions)]
                     bad == {i \in DOMAIN cs : ~cs[i].ok}
                 IN  IF bad # {} THEN cs[CHOOSE i \in bad : \A j \in bad : i <= j]
                     ELSE ParseHint(x.func, [i \in DOMAIN cs |-> cs[i].v])
           [] x.k \in {"class", "classes"} -> ParseTypes(x.types, options)
           [] x.k = "predicate" -> Compiled(UserValidator(x.func))
           [] OTHER -> Compiled(AnyValidator)

-----------------------------------------------------------------------------
(* The validating wrapper: wrappers.py.                                    *)

VInt == ValidatorShape(TypeInt)

CInt == ClassShape("int")

IntSum == Val("int", "x+y")

\* a return validator that converts what the function returns
VCastInt == ValidatorShape(TypeValidator({"int"}, FALSE, TRUE))

\* the functions that get wrapped: signature, return annotation, returned
\* value, and the class that declares it when it is a method
FuncDef(name) ==
    CASE name = "add" ->
            [name |-> name, cls |-> "-",
             sig |-> <<Param("x", "POS", FALSE, NoV, CInt),
                       Param("y", "POS", FALSE, NoV, CInt)>>,
             ret |-> CInt, retv |-> IntSum]
      [] name = "add_v" ->
            [name |-> name, cls |-> "-",
             sig |-> <<Param("x", "POS", FALSE, NoV, VInt),
                       Param("y", "POS", FALSE, NoV, VInt)>>,
             ret |-> VInt, retv |-> IntSum]
      [] name = "f_all" ->
            [name |-> name, cls |-> "-",
             sig |-> <<Param("x", "POS", FALSE, NoV, VInt),
                       Param("a", "VARPOS", FALSE, NoV, VInt),
                       Param("k", "KWONLY", TRUE, Int1, VInt),
                       Param("kw", "VARKW", FALSE, NoV, EmptyShape)>>,
             ret |-> EmptyShape, retv |-> NoneV]
      [] name = "g_def" ->
            [name |-> name, cls |-> "-",
             sig |-> <<Param("x", "POS", FALSE, NoV, VInt),
                       Param("y", "POS", TRUE, Int2, VInt)>>,
             ret |-> VInt, retv |-> StrA]
      [] name = "g_bad" ->
            [name |-> name, cls |-> "-",
             sig |-> <<Param("x", "POS", FALSE, NoV, VInt),
                       Param("y", "POS", TRUE, StrA, VInt)>>,
             ret |-> EmptyShape, retv |-> NoneV]
      [] name = "c_bad" ->
            [name |-> name, cls |-> "-",
             sig |-> <<Param("x", "POS", FALSE, NoV, EmptyShape),
                       Param("y", "POS", TRUE, StrA, CInt)>>,
             ret |-> EmptyShape, retv |-> NoneV]
      [] name = "f_items" ->
            [name |-> name, cls |-> "-",
             sig |-> <<Param("items", "VARPOS", FALSE, NoV, VInt)>>,
             ret |-> EmptyShape, retv |-> NoneV]
      [] name = "f_citems" ->
            [name |-> name, cls |-> "-",
             sig |-> <<Param("items", "VARPOS", FALSE, NoV, CInt)>>,
             ret |-> EmptyShape, retv |-> NoneV]
      [] name = "h_ret" ->
            [name |-> name, cls |-> "-",
             sig |-> <<Param("x", "POS", TRUE, Int1, EmptyShape)>>,
             ret |-> VCastInt, retv |-> Float15]
      [] name = "h_bad" ->
            [name |-> name, cls |-> "-",
             sig |-> <<Param("x", "POS", TRUE, Int1, HintShape("Sized", <<>>))>>,
             ret |-> EmptyShape, retv |-> NoneV]
      [] name = "h_kw" ->
            [name |-> name, cls |-> "-",
             sig |-> <<Param("x", "POS", TRUE, Int1, EmptyShape),
                       Param("kw", "VARKW", FALSE, NoV, VInt)>>,
             ret |-> EmptyShape, retv |-> NoneV]
      [] name = "meth" ->
            [name |-> name, cls |-> "A",
             sig |-> <<Param("self", "POS", FALSE, NoV, EmptyShape),
                       Param("x", "POS", TRUE, Int1, VInt)>>,
             ret |-> VInt, retv |-> StrA]

Slots == {"w1", "w2"}

MaxCompile == 2

MaxArgs == 2

ArgValues == {Int1, StrA}

KwNames == {"y", "k", "z"}

PosArgs == UNION {[1..n -> ArgValues] : n \in 0..MaxArgs}

KwArgs == {NoKw} \cup {[n \in {name} |-> v] : name \in KwNames, v \in ArgValues}

Options(off) == [k \in all_settings |-> IF k \in off THEN "False" ELSE "True"]

\* the wrappers that get constructed: every function with every check on, and
\* one function with argument checks off, one with variadic checks off
Wrapped ==
    {<<f, Options({})>> : f \in FuncNames}
        \cup {<<"add_v", Options({"match_args"})>>, <<"f_all", Options({"match_varargs"})>>}

\* the second set of wrappers: one function for each path through a call
WrappedCalls ==
    {<<"f_items", Options({})>>, <<"f_items", Options({"match_varargs"})>>,
     <<"f_items", Options({"match_args"})>>, <<"f_citems", Options({})>>,
     <<"f_all", Options({})>>,
     <<"g_def", Options({})>>, <<"g_def", Options({"match_return"})>>,
     <<"h_ret", Options({})>>, <<"add", Options({"match_args"})>>,
     <<"h_bad", Options({})>>, <<"h_kw", Options({})>>,
     <<"g_bad", Options({})>>, <<"g_bad", Options({"match_defaults"})>>,
     <<"c_bad", Options({})>>,
     <<"meth", Options({})>>, <<"meth", Options({"match_self"})>>}

CallSlots == {"w1"}

\* the receivers a method is called on
Receivers == {InstA, InstB, StrA, NoneV}

NoWrap == [made |-> FALSE, func |-> "-", options |-> Options({}), exc |-> "-"]

NoBind == [ok |-> FALSE, pos |-> NoKw, var |-> <<>>, kw |-> NoKw]

NoCall ==
    [w |-> "-", via |-> "-", obj |-> NoV, args |-> <<>>, kwargs |-> NoKw,
     st |-> "none", exc |-> NoExc, ninv |-> 0, recv |-> NoBind, direct |-> NoBind,
     result |-> NoV]

IdleWrap ==
    /\ wraps = [w \in Slots |-> NoWrap]
    /\ cache = "-"
    /\ compiled = [w \in Slots |-> 0]
    /\ last = NoCall

\* ValidateFuncWrapper.param_validators: one compiled annotation per parameter
param_validators(fd, options) ==
    [n \in ParamNames(fd.sig, {"POS", "KWONLY", "VARPOS", "VARKW"}) |->
        parse_annotation(ParamNamed(fd.sig, n).ann, options)]

\* the first annotation, in declaration order, that does not compile
CompileFailure(fd, pv) ==
    LET bad == {i \in DOMAIN fd.sig : ~pv[fd.sig[i].name].ok}
    IN  IF bad = {} THEN NoExc
        ELSE pv[fd.sig[CHOOSE i \in bad : \A j \in bad : i <= j].name].exc

\* the loop of validate_input over bounded.arguments: what is validated, in order
RECURSIVE Checks(_, _, _, _, _)
Checks(fd, options, b, pv, i) ==
    IF i > Len(fd.sig) THEN <<>>
    ELSE LET p == fd.sig[i]
             here ==
                CASE p.kind = "VARKW" -> <<>>
                  [] p.kind = "VARPOS" ->
                        [j \in 1..Len(b.var) |->
                            [v |-> pv[p.name].v, x |-> b.var[j],
                             ctx |-> Ctx(<<fd.name>>, <<"items on *", p.name>>),
                             varargs |-> TRUE,
                             checked |-> options["match_varargs"] = "True"]]
                  [] OTHER ->
                        <<[v |-> pv[p.name].v, x |-> b.pos[p.name],
                           ctx |-> Ctx(<<fd.name>>, <<p.name>>),
                           varargs |-> FALSE, checked |-> TRUE]>>
         IN  here \o Checks(fd, options, b, pv, i + 1)

\* validation stops at the first check that raises
FirstFailure(res) ==
    LET bad == {j \in DOMAIN res : res[j].r.st = "raise"}
    IN  IF bad = {} THEN 0 ELSE CHOOSE j \in bad : \A i \in bad : j <= i

Vals(rs) == [j \in DOMAIN rs |-> rs[j].r.val]

\* args (ordinary parameters in order) followed by varargs
PassedArgs(res) ==
    Vals(SelectSeq(res, LAMBDA c : ~c.varargs)) \o Vals(SelectSeq(res, LAMBDA c : c.varargs))

\* validate_input once the call is bound and the annotations are compiled
InputOutcome(options, args, kwargs, b, fail, res, used) ==
    IF options["match_args"] # "True"
    THEN [st |-> "ok", exc |-> NoExc, args |-> args, kwargs |-> kwargs, used |-> FALSE]
    ELSE IF ~b.ok
    THEN [st |-> "raise", exc |-> OtherError("TypeError"), args |-> <<>>,
          kwargs |-> NoKw, used |-> FALSE]
    ELSE IF used /\ fail # NoExc
    THEN [st |-> "raise", exc |-> fail, args |-> <<>>, kwargs |-> NoKw, used |-> TRUE]
    ELSE IF FirstFailure(res) # 0
    THEN [st |-> "raise", exc |-> res[FirstFailure(res)].r.exc, args |-> <<>>,
          kwargs |-> NoKw, used |-> TRUE]
    ELSE [st |-> "ok", exc |-> NoExc, args |-> PassedArgs(res), kwargs |-> b.kw,
          used |-> used]

\* each check of the loop, run in order
RunChecks(cs) ==
    [j \in DOMAIN cs |->
        [r |-> IF cs[j].checked THEN validate(cs[j].v, cs[j].x, cs[j].ctx)
               ELSE Ok(TRUE, cs[j].x),
         varargs |-> cs[j].varargs]]

BoundInput(fd, options, args, kwargs, b, pv) ==
    InputOutcome(options, args, kwargs, b, CompileFailure(fd, pv),
                 RunChecks(Checks(fd, options, b, pv, 1)),
                 ParamNames(fd.sig, {"POS", "KWONLY", "VARPOS"}) # {})

\* ValidateFuncWrapper.validate_input
validate_input(fd, options, args, kwargs) ==
    BoundInput(fd, options, args, kwargs, Bind(fd.sig, args, kwargs),
               param_validators(fd, options))

CompiledOutput(rv, fd, output) ==
    IF ~rv.ok THEN Raise(rv.exc)
    ELSE validate(rv.v, output, Ctx(<<fd.name>>, <<"return value">>))

\* ValidateFuncWrapper.validate_output
validate_output(fd, options, output) ==
    IF options["match_return"] # "True" THEN Ok(TRUE, output)
    ELSE CompiledOutput(parse_annotation(fd.ret, options), fd, output)

\* the call of the wrapped function and the check of what it returns
CallOutcome(vi, recv, vo) ==
    IF vi.st = "raise"
    THEN [st |-> "raise", exc |-> vi.exc, ninv |-> 0, recv |-> NoBind,
          result |-> NoV, used |-> vi.used]
    ELSE IF ~recv.ok
    THEN [st |-> "raise", exc |-> OtherError("TypeError"), ninv |-> 0, recv |-> NoBind,
          result |-> NoV, used |-> vi.used]
    ELSE IF vo.st = "raise"
    THEN [st |-> "raise", exc |-> vo.exc, ninv |-> 1, recv |-> recv,
          result |-> NoV, used |-> vi.used]
    ELSE [st |-> "ok", exc |-> NoExc, ninv |-> 1, recv |-> recv,
          result |-> vo.val, used |-> vi.used]

ValidatedCall(fd, options, vi) ==
    CallOutcome(vi, Bind(fd.sig, vi.args, vi.kwargs), validate_output(fd, options, fd.retv))

\* ValidateFuncWrapper.__call__
WrapperCall(fd, options, args, kwargs) ==
    ValidatedCall(fd, options, validate_input(fd, options, args, kwargs))

\* a **kwargs parameter that carries an annotation
AnnotatedVarKw(fd) ==
    \E i \in DOMAIN fd.sig : fd.sig[i].kind = "VARKW" /\ fd.sig[i].ann.k # "empty"

\* ValidateFuncWrapper(func, options): __init__ raises ValueError for an
\* annotated **kwargs and compiles nothing
Construct(w, f, o) ==
    /\ ~wraps[w].made
    /\ wraps' = [wraps EXCEPT ![w] =
                    IF AnnotatedVarKw(FuncDef(f))
                    THEN [made |-> FALSE, func |-> f, options |-> o, exc |-> "ValueError"]
                    ELSE [made |-> TRUE, func |-> f, options |-> o, exc |-> "-"]]
    /\ UNCHANGED <<cache, compiled, last>>

\* a call wrapper(*args, **kwargs)
CallWrapper(w, args, kwargs) ==
    /\ wraps[w].made
    /\ \E fd \in {FuncDef(wraps[w].func)} :
       \E r \in {WrapperCall(fd, wraps[w].options, args, kwargs)} :
       \E pvok \in {CompileFailure(fd, param_validators(fd, wraps[w].options)) = NoExc} :
       \E miss \in {r.used /\ cache # w} :
          /\ miss => compiled[w] < MaxCompile
          /\ compiled' = IF miss THEN [compiled EXCEPT ![w] = @ + 1] ELSE compiled
          /\ cache' = IF miss /\ pvok THEN w ELSE cache
          /\ last' = [w |-> w, via |-> "call", obj |-> NoV, args |-> args,
                      kwargs |-> kwargs, st |-> r.st,
                      exc |-> r.exc, ninv |-> r.ninv, recv |-> r.recv,
                      direct |-> Bind(fd.sig, args, kwargs), result |-> r.result]
    /\ UNCHANGED wraps

ReceiverError(fd, obj) ==
    ValidationError(<<fd.name>>, <<"1st argument">>,
                    <<"instance of the class", fd.cls>>, TypeName(obj), <<>>, <<>>)

\* the function called as it is, with the receiver as its first argument
RawCall(fd, b) ==
    IF ~b.ok
    THEN [st |-> "raise", exc |-> OtherError("TypeError"), ninv |-> 0, recv |-> NoBind,
          result |-> NoV]
    ELSE [st |-> "ok", exc |-> NoExc, ninv |-> 1, recv |-> b, result |-> fd.retv]

\* a method wrapper that never looks at the receiver
MethodWrapperCall_Unchecked(fd, options, obj, args, kwargs) ==
    RawCall(fd, Bind(fd.sig, <<obj>> \o args, kwargs))

(* MethodWrapper.__call__(obj, *args, **kwargs), the object __get__ hands   *)
(* out.  update_wrapper copies the __dict__ of the ValidateFuncWrapper     *)
(* into the MethodWrapper, so its obj is the function itself and           *)
(* super().__call__ calls the function without validating anything.        *)
MethodWrapperCall(fd, options, obj, args, kwargs) ==
    IF options["match_self"] = "True" /\ ~IsInstance(obj, {fd.cls})
    THEN [st |-> "raise", exc |-> ReceiverError(fd, obj), ninv |-> 0, recv |-> NoBind,
          result |-> NoV]
    ELSE RawCall(fd, Bind(fd.sig, <<obj>> \o args, kwargs))

\* cls.method(obj, *args, **kwargs), and obj.method(*args, **kwargs) for an
\* instance obj, of a wrapper that is an attribute of the class
CallMethod(w, obj, args, kwargs) ==
    /\ wraps[w].made
    /\ FuncDef(wraps[w].func).cls # "-"
    /\ \E fd \in {FuncDef(wraps[w].func)} :
       \E r \in {MethodWrapperCall(fd, wraps[w].options, obj, args, kwargs)} :
          last' = [w |-> w, via |-> "method", obj |-> obj, args |-> args,
                   kwargs |-> kwargs, st |-> r.st, exc |-> r.exc, ninv |-> r.ninv,
                   recv |-> r.recv,
                   direct |-> Bind(fd.sig, <<obj>> \o args, kwargs),
                   result |-> r.result]
    /\ UNCHANGED <<wraps, cache, compiled>>

-----------------------------------------------------------------------------
(* The proxy of a callable, and the compiler on its own.                   *)

NoProxyCall ==
    [args |-> <<>>, st |-> "none", exc |-> NoExc, ninv |-> 0, passed |-> <<>>,
     result |-> NoV]

IdleProxy == pcall = NoProxyCall

MaxProxyArgs == 3

ProxyArgValues == {Int1, StrA}

ProxyArgs == UNION {[1..n -> ProxyArgValues] : n \in 0..MaxProxyArgs}

TypeStr == TypeValidator({"str"}, TRUE, FALSE)

\* the validators whose proxies are called: N = 2 and N = 1, a return
\* validator that refuses ints, validators that convert
ProxyValidators ==
    {CallableValidator(<<TypeInt, TypeInt, AnyValidator>>),
     CallableValidator(<<TypeInt, TypeInt, TypeStr>>),
     CallableValidator(<<TypeInt, AnyValidator>>),
     CallableValidator(<<TypeValidator({"str"}, FALSE, TRUE), TypeInt>>),
     CallableValidator(<<AnyValidator, TypeValidator({"str"}, FALSE, TRUE)>>)}

ProxyTargets == {Fn1, Fn2, Fn3d, FnV, SliceT, Int1}

InitProxy ==
    /\ vd \in ProxyValidators /\ val \in ProxyTargets /\ vctx \in Contexts
    /\ tres = NotRun /\ vres = NotRun
    /\ pcall = NoProxyCall

\* utils.ordinal
ordinal(k) == CASE k = 1 -> "1st" [] k = 2 -> "2nd" [] OTHER -> ToString(k) \o "th"

\* context.get('func', '?') and context.get('param', '?')
CtxFunc(ctx) == IF ctx.func = <<>> THEN <<"?">> ELSE ctx.func

CtxParam(ctx) == IF ctx.param = <<>> THEN <<"?">> ELSE ctx.param

\* what the callables of the model return: fn1 and fn2 their first argument,
\* fn3d its third, fnv None, slice a new slice object
CallResult(f, args) ==
    CASE f.n \in {"fn1", "fn2"} -> args[1]
      [] f.n = "fn3d" -> args[3]
      [] f.n = "slice" -> Val("slice", "slice(...)")
      [] OTHER -> NoneV

\* the call f(*args) binds
Accepts(f, args) ==
    IF Introspectable(f) THEN Bind(SigOf(f), args, NoKw).ok ELSE Len(args) \in 1..3

\* BoundArguments.args after apply_defaults
BoundArgs(sig, b) ==
    LET pos == ParamsOfKind(sig, {"POS"})
    IN  [i \in 1..Len(pos) |-> b.pos[pos[i].name]] \o b.var

ProxyRaise(e, ninv, passed) ==
    [st |-> "raise", exc |-> e, ninv |-> ninv, passed |-> passed, result |-> NoV]

\* lines 373-382: the result validated against the last child
ProxyResult(v, ctx, vargs, r) ==
    IF r.st = "ok"
    THEN [st |-> "ok", exc |-> NoExc, ninv |-> 1, passed |-> vargs, result |-> r.val]
    ELSE IF r.exc.kind = "ValidationError"
    THEN ProxyRaise(ValidationError(CtxFunc(ctx), <<"return value of">> \o CtxParam(ctx),
                                    niddle(v.children[num_children(v)]), <<>>, <<>>, <<>>),
                    1, vargs)
    ELSE ProxyRaise(r.exc, 1, vargs)

\* CallableWrapper.__call__(self, *args) and the validation of what it returns
ProxyInvoke(v, f, ctx, vargs) ==
    IF ~Accepts(f, vargs) THEN ProxyRaise(OtherError("TypeError"), 0, <<>>)
    ELSE ProxyResult(v, ctx, vargs,
                     validate(v.children[num_children(v)], CallResult(f, vargs),
                              Ctx(CtxFunc(ctx), <<"return value of">> \o CtxParam(ctx))))

\* lines 358-365: each argument validated in order, the first failure raised
ProxyArguments(v, f, ctx, rs) ==
    IF FirstFailure(rs) = 0 THEN ProxyInvoke(v, f, ctx, Vals(rs))
    ELSE IF rs[FirstFailure(rs)].r.exc.kind = "ValidationError"
    THEN ProxyRaise(ValidationError(CtxFunc(ctx), <<>>, <<>>, <<>>, <<>>,
                                    <<ordinal(FirstFailure(rs)), "argument passed to">>
                                    \o CtxParam(ctx) \o <<"must be">>
                                    \o niddle(v.children[FirstFailure(rs)])),
                    0, <<>>)
    ELSE ProxyRaise(rs[FirstFailure(rs)].r.exc, 0, <<>>)

\* lines 349-355: as many arguments, after the defaults, as parameter validators
ProxyArity(v, f, ctx, bargs) ==
    IF Len(bargs) # num_children(v) - 1
    THEN ProxyRaise(ValidationError(CtxFunc(ctx), <<>>, <<>>, <<>>, <<>>,
                                    CtxParam(ctx)
                                    \o <<"expects", ToString(Len(bargs)),
                                         "arguments but got",
                                         ToString(num_children(v) - 1), "instead">>),
                    0, <<>>)
    ELSE ProxyArguments(v, f, ctx,
            [k \in 1..Len(bargs) |->
                [r |-> validate(v.children[k], bargs[k],
                                Ctx(CtxFunc(ctx),
                                    <<ordinal(k), "argument of">> \o CtxParam(ctx)))]])

ProxyBound(v, f, ctx, b) ==
    IF ~b.ok THEN ProxyRaise(OtherError("TypeError"), 0, <<>>)
    ELSE ProxyArity(v, f, ctx, BoundArgs(SigOf(f), b))

\* a proxy that hands its arguments to the callable as they come
CallableProxyCall_Unchecked(v, f, ctx, args) == ProxyInvoke(v, f, ctx, args)

\* CallableProxy.__call__(*args)
CallableProxyCall(v, f, ctx, args) ==
    IF Introspectable(f) THEN ProxyBound(v, f, ctx, Bind(SigOf(f), args, NoKw))
    ELSE ProxyInvoke(v, f, ctx, args)

\* a call of the proxy that validate() handed out
ProxyCall(args) ==
    /\ vres.st = "ok"
    /\ vres.val.t = "CallableProxy"
    /\ \E r \in {CallableProxyCall(vd, val, vctx, args)} :
          pcall' = [args |-> args, st |-> r.st, exc |-> r.exc, ninv |-> r.ninv,
                    passed |-> r.passed, result |-> r.result]
    /\ UNCHANGED <<vd, val, tres, vres, vctx>>

NotParsed == [ok |-> FALSE, v |-> AnyValidator, exc |-> NoExc]

IdleCompile == pann = EmptyShape /\ popts = NoOptions /\ parsed = NotParsed

\* the annotations handed to the compiler
CompileShapes ==
    {EmptyShape, NoneTypeShape, ValidatorShape(TypeInt), PredicateShape("is_int"),
     ClassShape("int"), ClassShape("str"), ClassesShape({"int", "str"}),
     HintShape("Iterator", <<>>), HintShape("Iterator", <<ClassShape("int")>>),
     HintShape("Iterable", <<ValidatorShape(TypeInt)>>),
     HintShape("Callable", <<ClassShape("int"), ClassShape("int")>>),
     HintShape("Union", <<ClassShape("int"), NoneTypeShape>>),
     HintShape("Union", <<NoneTypeShape, ClassShape("int")>>),
     HintShape("Union", <<ValidatorShape(TypeInt), NoneTypeShape>>),
     HintShape("Union", <<ClassShape("int"), ClassShape("str")>>),
     HintShape("Sized", <<>>), HintShape("List", <<ClassShape("int")>>),
     ClassesShape({}), OtherShape("number"), OtherShape("text"),
     BoolShape(TRUE), BoolShape(FALSE), ValidatorClassShape(TrueValidator)}

\* a mapping that also holds the key parse_annotation asks for
WithCompatibleTypes(o) ==
    [k \in all_settings \cup {"match_compatible_types"} |->
        IF k \in all_settings THEN o[k] ELSE "False"]

\* the options handed to the compiler: settings snapshots, and None
CompileOptions ==
    {Options({}), Options({"ignore_subclasses"}),
     Options({"ignore_subclasses", "match_defaults"}),
     WithCompatibleTypes(Options({})), WithCompatibleTypes(Options({"ignore_subclasses"})),
     NoOptions}

InitCompile == pann \in CompileShapes /\ popts \in CompileOptions /\ parsed = NotParsed

\* parse_annotation(x, options)
Parse ==
    /\ parsed = NotParsed
    /\ parsed' = parse_annotation(pann, popts)
    /\ UNCHANGED <<pann, popts>>

-----------------------------------------------------------------------------
(* Specifications.                                                         *)

\* the Validator protocol on one validator and one value
InitValidate ==
    InitProto /\ IdleIter /\ IdleSettings /\ IdleDeco /\ IdleWrap /\ IdleProxy /\ IdleCompile

NextValidate ==
    \/ DoTest /\ UNCHANGED <<iterVars, setVars, decoVars, wrapVars, proxyVars, compVars>>
    \/ DoValidate /\ UNCHANGED <<iterVars, setVars, decoVars, wrapVars, proxyVars, compVars>>

SpecValidate == InitValidate /\ [][NextValidate]_vars

\* one iterator proxy consumed to its end
InitIterator ==
    IdleProto /\ InitIter /\ IdleSettings /\ IdleDeco /\ IdleWrap /\ IdleProxy /\ IdleCompile

NextIterator ==
    \/ IterValidate /\ UNCHANGED <<protoVars, setVars, decoVars, wrapVars, proxyVars, compVars>>
    \/ IterableProxyIter /\ UNCHANGED <<protoVars, setVars, decoVars, wrapVars, proxyVars, compVars>>
    \/ IteratorProxyNext /\ UNCHANGED <<protoVars, setVars, decoVars, wrapVars, proxyVars, compVars>>

SpecIterator == InitIterator /\ [][NextIterator]_vars

\* the settings and the decorator
InitSettings ==
    IdleProto /\ IdleIter /\ IdleSettings /\ IdleDeco /\ IdleWrap /\ IdleProxy /\ IdleCompile

NextSettings ==
    \/ \E m \in UserModules, k \in AssignedKeys, v \in AssignedValues :
          SetItem(m, k, v) /\ UNCHANGED <<protoVars, iterVars, decoVars, wrapVars, proxyVars, compVars>>
    \/ \E m \in UserModules, k \in AssignedKeys, v \in AssignedValues :
          SetAttr(m, k, v) /\ UNCHANGED <<protoVars, iterVars, decoVars, wrapVars, proxyVars, compVars>>
    \/ \E m \in UserModules, k \in AssignedKeys :
          DelItem(m, k) /\ UNCHANGED <<protoVars, iterVars, decoVars, wrapVars, proxyVars, compVars>>
    \/ \E k \in AssignedKeys, v \in AssignedValues :
          GlobalSetItem(k, v) /\ UNCHANGED <<protoVars, iterVars, decoVars, wrapVars, proxyVars, compVars>>
    \/ \E d \in Decos, f \in DecoratedFuncs :
          DecorateBare(d, f) /\ UNCHANGED <<protoVars, iterVars, setVars, wrapVars, proxyVars, compVars>>
    \/ \E d \in Decos, f \in DecoratedFuncs, n \in 0..1, kw \in DecoratorKwargs :
          DecorateWithOptions(d, f, n, kw)
          /\ UNCHANGED <<protoVars, iterVars, setVars, wrapVars, proxyVars, compVars>>
    \/ \E d \in Decos :
          InvokeChecked(d) /\ UNCHANGED <<protoVars, iterVars, setVars, wrapVars, proxyVars, compVars>>

SpecSettings == InitSettings /\ [][NextSettings]_vars

\* wrappers constructed directly and called
Init ==
    IdleProto /\ IdleIter /\ IdleSettings /\ IdleDeco /\ IdleWrap /\ IdleProxy /\ IdleCompile

Next ==
    \/ \E w \in Slots, fo \in Wrapped :
          Construct(w, fo[1], fo[2]) /\ UNCHANGED <<protoVars, iterVars, setVars, decoVars, proxyVars, compVars>>
    \/ \E w \in Slots, args \in PosArgs, kwargs \in KwArgs :
          CallWrapper(w, args, kwargs)
          /\ UNCHANGED <<protoVars, iterVars, setVars, decoVars, proxyVars, compVars>>

Spec == Init /\ [][Next]_vars

\* a callable validated and its proxy called
InitCallable ==
    InitProxy /\ IdleIter /\ IdleSettings /\ IdleDeco /\ IdleWrap /\ IdleCompile

NextCallable ==
    \/ DoValidate /\ UNCHANGED <<iterVars, setVars, decoVars, wrapVars, proxyVars, compVars>>
    \/ \E args \in ProxyArgs :
          ProxyCall(args) /\ UNCHANGED <<iterVars, setVars, decoVars, wrapVars, compVars>>

SpecCallable == InitCallable /\ [][NextCallable]_vars

\* the compiler applied to one annotation
InitParse ==
    IdleProto /\ IdleIter /\ IdleSettings /\ IdleDeco /\ IdleWrap /\ IdleProxy /\ InitCompile

NextParse ==
    Parse /\ UNCHANGED <<protoVars, iterVars, setVars, decoVars, wrapVars, proxyVars>>

SpecParse == InitParse /\ [][NextParse]_vars

\* one wrapper, constructed over each kind of function and called, also as a method
NextCalls ==
    \/ \E w \in CallSlots, fo \in WrappedCalls :
          Construct(w, fo[1], fo[2])
          /\ UNCHANGED <<protoVars, iterVars, setVars, decoVars, proxyVars, compVars>>
    \/ \E w \in CallSlots, args \in PosArgs, kwargs \in KwArgs :
          CallWrapper(w, args, kwargs)
          /\ UNCHANGED <<protoVars, iterVars, setVars, decoVars, proxyVars, compVars>>
    \/ \E w \in CallSlots, obj \in Receivers, args \in PosArgs, kwargs \in KwArgs :
          CallMethod(w, obj, args, kwargs)
          /\ UNCHANGED <<protoVars, iterVars, setVars, decoVars, proxyVars, compVars>>

SpecCalls == Init /\ [][NextCalls]_vars

-----------------------------------------------------------------------------
(* The properties.                                                         *)

\* what a declared shape asks of a value: a Validator instance by its test,
\* a class by instance-of, no annotation nothing
Conforms(ann, x) ==
    CASE ann.k = "validator" -> test(ann.v, x).st = "ok" /\ test(ann.v, x).b
      [] ann.k = "class" -> IsInstance(x, ann.types)
      [] ann.k = "None" -> x = NoneV
      [] OTHER -> TRUE

LastFunc == FuncDef(wraps[last.w].func)

LastOptions == wraps[last.w].options

\* the ordinary parameters of the last call whose argument violates its shape
ViolatingOrdinary ==
    {i \in DOMAIN LastFunc.sig :
        /\ LastFunc.sig[i].kind = "POS"
        /\ ~Conforms(LastFunc.sig[i].ann, last.direct.pos[LastFunc.sig[i].name])}

FirstViolatingOrdinary ==
    CHOOSE i \in ViolatingOrdinary : \A j \in ViolatingOrdinary : i <= j

\* every argument of the last call conforms to the shape declared for it
AllConform ==
    /\ ViolatingOrdinary = {}
    /\ \A i \in DOMAIN LastFunc.sig :
          /\ LastFunc.sig[i].kind = "KWONLY" =>
                Conforms(LastFunc.sig[i].ann, last.direct.pos[LastFunc.sig[i].name])
          /\ LastFunc.sig[i].kind = "VARPOS" =>
                \A j \in DOMAIN last.direct.var :
                    Conforms(LastFunc.sig[i].ann, last.direct.var[j])

\* every annotation of the last called function is a Validator instance or absent
ValidatorAnnotated ==
    \A i \in DOMAIN LastFunc.sig : LastFunc.sig[i].ann.k \in {"validator", "empty"}

\* C1: with match_args on, a call in which an ordinary argument violates its
\* shape raises a ValidationError naming the first violating parameter in
\* declaration order, and the wrapped function is not invoked.
C1_FirstViolationRaised ==
    (/\ last.w # "-"
     /\ LastOptions["match_args"] = "True"
     /\ last.direct.ok
     /\ ViolatingOrdinary # {})
    => /\ last.st = "raise"
       /\ last.exc.kind = "ValidationError"
       /\ last.exc.param = <<LastFunc.sig[FirstViolatingOrdinary].name>>
       /\ last.ninv = 0

\* C2: a call whose arguments all conform, given by position or by keyword,
\* invokes the wrapped function exactly once, and every declared parameter
\* (ordinary, keyword-only, *args, **kwargs) receives the value a direct call
\* would give it.  Stated for functions annotated with Validator instances.
C2_SameAsDirectCall ==
    (/\ last.w # "-"
     /\ ValidatorAnnotated
     /\ last.direct.ok
     /\ AllConform)
    => /\ last.ninv = 1
       /\ last.recv = last.direct

\* C3: for the validators of validators.py, test(v) is True exactly when
\* validate(v) returns, and False exactly when validate(v) raises a
\* ValidationError.
C3_TestAgreesWithValidate ==
    (/\ vd \in BuiltinValidators
     /\ tres.st # "none"
     /\ vres.st # "none")
    => /\ (tres.st = "ok" /\ tres.b) <=> vres.st = "ok"
       /\ (tres.st = "ok" /\ ~tres.b)
             <=> (vres.st = "raise" /\ vres.exc.kind = "ValidationError")

\* C4 as stated: test(value) turns whatever the check produces into a bool
\* and never raises.
C4_TestNeverRaises == tres.st # "none" => tres.st = "ok"

\* the outcomes Validator.__call__ is meant to produce: None, a bool, or a
\* generator whose first signal is a bool (yielded or returned) or that ends
\* returning None
WellFormed(r) ==
    \/ r.shape \in {"none", "bool"}
    \/ r.shape = "gen" /\ r.first \in {"True", "False"}
    \/ r.shape = "gen" /\ ~r.yielded /\ r.first = "None"

\* C4 amended: test(value) returns a bool, True exactly for a passing first
\* signal, and nothing else of the outcome, when the check produces a
\* well-formed outcome; a check that returns another object or a generator
\* that first yields a non-bool raises TypeError, a generator that returns a
\* non-bool raises AssertionError, and an exception of the check propagates.
C4_TestNormalizesWellFormed ==
    tres.st # "none" =>
        LET r == Call(vd, val, NoCtx)
        IN  /\ WellFormed(r) =>
                  /\ tres.st = "ok"
                  /\ tres.b \in BOOLEAN
                  /\ tres.b <=> r.first \in {"True", "None"}
                  /\ tres.val = NoV
            /\ r.shape = "other" => tres = Raise(OtherError("TypeError"))
            /\ (r.shape = "gen" /\ r.yielded /\ r.first = "other")
                  => tres = Raise(OtherError("TypeError"))
            /\ (r.shape = "gen" /\ ~r.yielded /\ r.first = "other")
                  => tres = Raise(OtherError("AssertionError"))
            /\ (r.shape = "raise" \/ r.first = "raise") => tres = Raise(r.exc)

\* test() drops the custom diagnostic of a failing generator and answers False
C4_Witness ==
    /\ vd = CustomValidator("gen_false_custom")
    /\ tres = Ok(FALSE, NoV)

\* C5: validate(v) returns v itself when the check returns True or None, is a
\* generator that ends without yielding (and without a failure signal), or
\* is a generator that yields only True; when a second value follows the
\* True signal, validate(v) returns that second value.
C5_ValidateReturnsValueOrReplacement ==
    vres.st # "none" =>
        LET r == Call(vd, val, vctx)
        IN  /\ (\/ r.shape = "none"
                \/ r.shape = "bool" /\ r.first = "True"
                \/ r.shape = "gen" /\ ~r.yielded /\ r.first \in {"None", "True"}
                \/ r.shape = "gen" /\ r.yielded /\ r.first = "True" /\ r.then = "stop")
                  => vres = Ok(TRUE, val)
            /\ (r.shape = "gen" /\ r.yielded /\ r.first = "True" /\ r.then = "yield")
                  => vres = Ok(TRUE, r.thenV)

\* a coercing Type validator hands back the converted value
C5_Witness ==
    /\ vd = TypeValidator({"int"}, FALSE, TRUE)
    /\ val = Float15
    /\ vres = Ok(TRUE, CastValue(Float15, "__int__", "int"))

\* the check signals failure: False, or a generator whose first signal is False
Fails(r) ==
    \/ r.shape = "bool" /\ r.first = "False"
    \/ r.shape = "gen" /\ r.first = "False"

BadItems == {i \in DOMAIN items : ~test(child, items[i]).b}

FirstBad == CHOOSE i \in BadItems : \A j \in BadItems : i <= j

\* the first n items as the child hands them back: the item itself, or the
\* replacement the child supplies for it
Returned(n) == [j \in 1..n |-> validate(child, items[j], NoCtx).val]

\* C7 as stated: over a sequence whose first non-conforming item is at
\* position k, the first k-1 pulls of the proxy return the items in order
\* without raising, the k-th pull raises a ValidationError, and no item after
\* position k is ever pulled from the underlying iterator.
C7_NothingPulledAfterViolation ==
    (ipc = "run" /\ ikind = "Iterator" /\ BadItems # {}) =>
        /\ pulled <= FirstBad
        /\ pulls < FirstBad =>
              /\ ierr = NoExc
              /\ got = SubSeq(items, 1, pulls)
        /\ pulls = FirstBad =>
              /\ ierr.kind = "ValidationError"
              /\ got = SubSeq(items, 1, FirstBad - 1)

\* C7 amended: the first k-1 pulls return the items in order without
\* raising, the k-th pull raises a ValidationError, and every pull takes
\* exactly one item from the underlying iterator while it has one, so that
\* when the k-th pull raises no item after position k has been pulled; a
\* pull made after the violation goes on with item k+1.
C7_LazyUntilFirstViolation ==
    (ipc = "run" /\ ikind = "Iterator" /\ BadItems # {}) =>
        /\ pulled = Min(pulls, Len(items))
        /\ pulls < FirstBad =>
              /\ ierr = NoExc
              /\ got = Returned(pulls)
        /\ pulls = FirstBad =>
              /\ ierr.kind = "ValidationError"
              /\ got = Returned(FirstBad - 1)
              /\ pulled = FirstBad
        /\ (pulls > FirstBad /\ FirstBad < Len(items)) => pulled > FirstBad

\* [1, 2, "a"]: two items returned, the third pull raised
C7_Witness ==
    /\ ikind = "Iterator"
    /\ items = <<Int1, Int2, StrA>>
    /\ pulls = 3
    /\ pulled = 3
    /\ got = <<Int1, Int2>>
    /\ ierr.kind = "ValidationError"

\* C8: the settings of a decorated function are resolved once, when it is
\* decorated: build_wrapper runs once for it and leaves the wrapper (or the
\* function) that every later call uses, whatever the settings become.
C8_ResolvedOnce ==
    \A d \in Decos :
        decos[d].made =>
            /\ nbuilt[d] <= 1
            /\ nbuilt[d] = 1 => built[d].st \in {"func", "wrapper"}

\* C9: when the resolved settings have enabled = False, decorating yields the
\* function itself.
C9_DisabledYieldsOriginal ==
    \A d \in Decos :
        (/\ built[d].st # "none"
         /\ built[d].exc # "ValueError"
         /\ "enabled" \in DOMAIN built[d].kwargs
         /\ built[d].kwargs["enabled"] = "False")
        => built[d].st = "func"

\* C10: each option of a decorated function resolves by the cascade; at its
\* top, an option given to @checked(...) is the value the build resolves.
C10_CallSiteOverrideWins ==
    \A d \in Decos :
        (built[d].st # "none" /\ built[d].exc # "ValueError") =>
            \A k \in DOMAIN built[d].kwargs :
                built[d].options[k] = built[d].kwargs[k]

\* the variadic-positional parameter of the last called function, if any
VarParams == {i \in DOMAIN LastFunc.sig : LastFunc.sig[i].kind = "VARPOS"}

VarParam == LastFunc.sig[CHOOSE i \in VarParams : TRUE]

\* the items of the last call that the validator declared for *args refuses
ViolatingItems ==
    {j \in DOMAIN last.direct.var : ~Conforms(VarParam.ann, last.direct.var[j])}

\* the ordinary and keyword-only arguments of the last call conform
NamedConform ==
    /\ ViolatingOrdinary = {}
    /\ \A i \in DOMAIN LastFunc.sig :
          LastFunc.sig[i].kind = "KWONLY" =>
              Conforms(LastFunc.sig[i].ann, last.direct.pos[LastFunc.sig[i].name])

\* C11: the items given for *args are validated one by one exactly when
\* match_args and match_varargs are both on: a violating item then raises a
\* ValidationError labelled "items on *<name>" and the function is not
\* invoked; in every other case (all items conform, or one of the two
\* options is off) the function is invoked with the items unchanged.
C11_VarargsValidatedWhenBothOn ==
    (/\ last.w # "-"
     /\ VarParams # {}
     /\ last.direct.ok
     /\ NamedConform)
    => IF /\ LastOptions["match_args"] = "True"
          /\ LastOptions["match_varargs"] = "True"
          /\ ViolatingItems # {}
       THEN /\ last.st = "raise"
            /\ last.exc.kind = "ValidationError"
            /\ last.exc.param = <<"items on *", VarParam.name>>
            /\ last.ninv = 0
       ELSE /\ last.ninv = 1
            /\ last.recv.var = last.direct.var

\* what the return validator hands back for a conforming value
ExpectedOutput(ann, x) ==
    IF ann.k = "validator" THEN validate(ann.v, x, NoCtx).val ELSE x

\* C12: once the function has been invoked, its result is validated against
\* the return annotation exactly when match_return is on: a conforming
\* result is returned as the validator hands it back (possibly replaced), a
\* violating one raises a ValidationError labelled "return value" and nothing
\* is returned; with match_return off the result is returned unchanged.
C12_ReturnValidatedWhenOn ==
    (last.w # "-" /\ last.ninv = 1)
    => IF LastOptions["match_return"] = "True"
       THEN IF Conforms(LastFunc.ret, LastFunc.retv)
            THEN /\ last.st = "ok"
                 /\ last.result = ExpectedOutput(LastFunc.ret, LastFunc.retv)
            ELSE /\ last.st = "raise"
                 /\ last.exc.kind = "ValidationError"
                 /\ last.exc.param = <<"return value">>
                 /\ last.result = NoV
       ELSE /\ last.st = "ok"
            /\ last.result = LastFunc.retv

\* C13: a method called through its wrapper with match_self on and a
\* receiver that is not an instance of the declaring class raises a
\* ValidationError about the receiver and the function is not invoked; with
\* match_self off no call raises about the receiver.
C13_ReceiverCheckedWhenOn ==
    (last.w # "-" /\ last.via = "method")
    => IF LastOptions["match_self"] = "True"
       THEN ~IsInstance(last.obj, {LastFunc.cls}) =>
                /\ last.st = "raise"
                /\ last.exc = ReceiverError(LastFunc, last.obj)
                /\ last.ninv = 0
       ELSE /\ last.exc.param # <<"1st argument">>
            /\ Bind(LastFunc.sig, <<last.obj>> \o last.args, last.kwargs).ok
                  => last.ninv = 1

\* A.meth("a", 1) with match_self on: refused, meth not invoked
C13_Witness ==
    /\ last.via = "method"
    /\ last.obj = StrA
    /\ LastOptions["match_self"] = "True"
    /\ last.exc.param = <<"1st argument">>
    /\ last.exc.got = <<"str">>
    /\ last.ninv = 0

\* an annotation of the function that parse_annotation refuses as a shape
Unsupported(fd, options) ==
    \/ \E i \in DOMAIN fd.sig :
          parse_annotation(fd.sig[i].ann, options).exc.kind = "NotImplementedError"
    \/ parse_annotation(fd.ret, options).exc.kind = "NotImplementedError"

\* C14: an unsupported shape in the declaration is reported when the function
\* is wrapped: no wrapper comes to exist over such a function, and no call
\* of a wrapper raises the compile error.
C14_ShapeErrorAtWrapOnly ==
    /\ \A w \in Slots :
          wraps[w].made => ~Unsupported(FuncDef(wraps[w].func), wraps[w].options)
    /\ last.exc.kind # "NotImplementedError"

\* C15: without coercion, Type-set(types).test(v) is True exactly when the
\* runtime type of v is one of the types (subclass matching off), or when v
\* is an instance of one of the types or of a subtype (subclass matching on).
C15_TypeSetTest ==
    (/\ vd.kind = "Type"
     /\ ~vd.check_compatible_classes
     /\ tres.st # "none")
    => /\ tres.st = "ok"
       /\ tres.b <=> IF vd.check_subclasses
                     THEN \E T \in vd.types : val.t = T \/ IsSubclass(val.t, T)
                     ELSE \E T \in vd.types : val.t = T

\* True is not an int when subclass matching is off
C15_Witness ==
    /\ vd = TypeValidator({"int"}, FALSE, FALSE)
    /\ val = TrueV
    /\ tres = Ok(FALSE, NoV)

\* v has one of the conversion methods make_cast knows for the type T
Exposes(v, T) ==
    \E i \in DOMAIN CastMethods : CastMethods[i][2] = T /\ HasAttr(v, CastMethods[i][1])

\* C16: with coercion on and subclass matching off, for one target type T
\* among int, float and str and a value whose type is neither T nor complex,
\* test(v) is True exactly when v exposes the conversion to T, and then
\* validate(v) returns the converted value, which is of type T.
C16_CoercionConverts ==
    (/\ vd.kind = "Type"
     /\ vd.check_compatible_classes
     /\ ~vd.check_subclasses
     /\ \E T \in {"int", "float", "str"} : vd.types = {T}
     /\ val.t \notin vd.types \cup {"complex"}
     /\ tres.st # "none"
     /\ vres.st # "none")
    => LET T == CHOOSE T \in vd.types : TRUE
       IN  /\ tres = Ok(Exposes(val, T), NoV)
           /\ Exposes(val, T) =>
                 /\ vres.st = "ok"
                 /\ vres.val.t = T
                 /\ vres.val.conv # ""

\* C17: Optional-of(c).test(v) is True exactly when v is None or c.test(v) is
\* True.
C17_OptionalTest ==
    (vd.kind = "Optional" /\ tres.st # "none")
    => ((tres.st = "ok" /\ tres.b)
           <=> \/ val = NoneV
               \/ /\ test(vd.children[1], val).st = "ok"
                  /\ test(vd.children[1], val).b)

\* None passes although the child refuses it
C17_Witness ==
    /\ vd = OptionalValidator(<<TypeInt>>)
    /\ val = NoneV
    /\ test(TypeInt, NoneV) = Ok(FALSE, NoV)
    /\ tres = Ok(TRUE, NoV)

\* C18 as stated: with N parameter validators and a callable whose signature
\* is introspectable, test passes exactly when the callable has N
\* parameters; a value that is not callable fails.
C18_ArityIsParameterCount ==
    (/\ vd.kind = "Callable"
     /\ num_children(vd) > 0
     /\ tres.st # "none")
    => /\ ~IsCallable(val) => tres = Ok(FALSE, NoV)
       /\ (IsCallable(val) /\ Introspectable(val))
             => tres = Ok(Len(SigOf(val)) = num_children(vd) - 1, NoV)

\* n positional arguments fit the signature: no more parameters without a
\* default than n, none of them keyword-only, and n positional parameters
\* at least unless there is a *args
TakesPositional(sig, n) ==
    /\ Cardinality({i \in DOMAIN sig : sig[i].kind = "POS" /\ ~sig[i].hasDefault}) <= n
    /\ \A i \in DOMAIN sig : sig[i].kind = "KWONLY" => sig[i].hasDefault
    /\ \/ n <= Cardinality({i \in DOMAIN sig : sig[i].kind = "POS"})
       \/ \E i \in DOMAIN sig : sig[i].kind = "VARPOS"

\* C18 amended: with N parameter validators and a callable whose signature
\* is introspectable, test passes exactly when N positional arguments fit
\* the signature of the callable; a callable without a signature passes; a
\* value that is not callable fails.
C18_ArityIsBindable ==
    (/\ vd.kind = "Callable"
     /\ num_children(vd) > 0
     /\ tres.st # "none")
    => /\ ~IsCallable(val) => tres = Ok(FALSE, NoV)
       /\ (IsCallable(val) /\ Introspectable(val))
             => tres = Ok(TakesPositional(SigOf(val), num_children(vd) - 1), NoV)
       /\ (IsCallable(val) /\ ~Introspectable(val)) => tres = Ok(TRUE, NoV)

\* a function of three parameters, the last with a default, passes for N = 2
C18_Witness ==
    /\ vd = CallableValidator(<<TypeInt, TypeInt, AnyValidator>>)
    /\ val = Fn3d
    /\ tres = Ok(TRUE, NoV)

\* the parameter validators of the validator under examination
NumParams == num_children(vd) - 1

\* the positions at which an argument of the last proxy call is refused
ViolatingArgs ==
    {i \in 1..Min(Len(pcall.args), NumParams) :
        test(vd.children[i], pcall.args[i]) # Ok(TRUE, NoV)}

\* the arguments reached the callable as their validators hand them back
PassedValidated ==
    /\ Len(pcall.passed) = NumParams
    /\ \A i \in 1..NumParams :
          pcall.passed[i] = validate(vd.children[i], pcall.args[i], NoCtx).val

\* the result of the callable went through the return validator
ResultValidated ==
    LET r == validate(vd.children[num_children(vd)], CallResult(val, pcall.passed), NoCtx)
    IN  IF r.st = "ok"
        THEN pcall.st = "ok" /\ pcall.result = r.val
        ELSE pcall.st = "raise" /\ pcall.result = NoV

\* C19 as stated: a call of the proxy with a violating argument or with a
\* number of arguments other than N raises and the callable is not invoked;
\* when the callable is invoked it gets the validated arguments, and its
\* result is returned as the return validator hands it back, or the call
\* raises when the return validator refuses it.
C19_ProxyValidatesBeforeAndAfter ==
    pcall.st # "none" =>
        /\ (ViolatingArgs # {} \/ Len(pcall.args) # NumParams)
              => pcall.st = "raise" /\ pcall.ninv = 0
        /\ pcall.ninv = 1 => PassedValidated /\ ResultValidated

\* C19 amended: the same for a callable whose signature is introspectable;
\* for a callable without one the arguments reach it as given, unvalidated
\* and whatever their number, and only its result is validated.
C19_ProxyValidatesIntrospectable ==
    pcall.st # "none" =>
        /\ Introspectable(val) =>
              /\ (ViolatingArgs # {} \/ Len(pcall.args) # NumParams)
                    => pcall.st = "raise" /\ pcall.ninv = 0
              /\ pcall.ninv = 1 => PassedValidated
        /\ ~Introspectable(val) =>
              /\ pcall.ninv = 1 <=> Accepts(val, pcall.args)
              /\ pcall.ninv = 1 => pcall.passed = pcall.args
        /\ pcall.ninv = 1 => ResultValidated

\* fn2 behind a proxy with two int validators, called with (1, "a")
C19_Witness ==
    /\ vd = CallableValidator(<<TypeInt, TypeInt, AnyValidator>>)
    /\ val = Fn2
    /\ pcall.args = <<Int1, StrA>>
    /\ pcall.st = "raise"
    /\ pcall.exc.kind = "ValidationError"
    /\ pcall.exc.message[1] = "2nd"
    /\ pcall.ninv = 0

\* the Type-set validator a class, or a collection of classes, stands for
\* under a settings snapshot
IsTypeSetOf(v, x, options) ==
    /\ v.kind = "Type"
    /\ v.types = x.types
    /\ v.check_subclasses = (options["ignore_subclasses"] = "False")

\* C20: a class, or a non-empty collection of classes, compiles to a Type-set
\* validator over exactly those classes whose check_subclasses is the
\* negation of ignore_subclasses in the options passed to the compiler, and
\* so does every class that is an argument of a type hint.
C20_TypesCompileToTypeSet ==
    (parsed # NotParsed /\ popts # NoOptions)
    => /\ (pann.k \in {"class", "classes"} /\ pann.types # {}) =>
             parsed.ok /\ IsTypeSetOf(parsed.v, pann, popts)
       /\ (pann.k = "hint" /\ \E i \in DOMAIN pann.args : pann.args[i].k = "class") =>
             /\ parsed.ok
             /\ \A i \in DOMAIN parsed.v.children :
                   pann.args[i].k = "class" =>
                       IsTypeSetOf(parsed.v.children[i], pann.args[i], popts)

\* a union of exactly one shape and the absent type
IsOptionalUnion(x) ==
    /\ x.k = "hint" /\ x.func = "Union" /\ Len(x.args) = 2
    /\ (x.args[1] = NoneTypeShape) # (x.args[2] = NoneTypeShape)

\* its member that is not the absent type
UnionMember(x) == IF x.args[1] = NoneTypeShape THEN x.args[2] ELSE x.args[1]

\* C21: a union of exactly one shape and the absent type compiles to
\* Optional-of(the compiled shape), whichever member comes first; any other
\* union compiles to the Any validator; a type hint whose kind is none of
\* Iterator, Iterable, Callable and Union raises NotImplementedError.
C21_UnionsAndUnsupportedHints ==
    (parsed # NotParsed /\ popts # NoOptions /\ pann.k = "hint")
    => /\ IsOptionalUnion(pann) =>
             /\ parse_annotation(UnionMember(pann), popts).ok
             /\ parsed = Compiled(OptionalValidator(
                             <<parse_annotation(UnionMember(pann), popts).v>>))
       /\ (pann.func = "Union" /\ ~IsOptionalUnion(pann)) =>
             parsed = Compiled(AnyValidator)
       /\ pann.func \notin {"Iterator", "Iterable", "Callable", "Union"} =>
             (~parsed.ok /\ parsed.exc.kind = "NotImplementedError")

\* C22: an annotation that is no sentinel, no validator, no type hint, no
\* class or non-empty collection of classes and no callable (a number, a
\* string, an empty collection) compiles to the Any validator, and the
\* compiler does not raise.
C22_FallbackIsAnyValidator ==
    (parsed # NotParsed /\ (pann.k = "other" \/ pann = ClassesShape({})))
    => parsed = Compiled(AnyValidator)

\* C23: the literal True compiles to the validator that passes the truthy
\* values, the literal False to the one that passes the falsy values.
C23_BoolSentinelsCompile ==
    (parsed # NotParsed /\ popts # NoOptions /\ pann.k = "bool")
    => parsed = Compiled(IF pann.func = "True" THEN TrueValidator ELSE FalseValidator)

\* the predicates that return an object and are no generator functions
PlainFuncs == {"ret_true", "ret_false", "ret_none", "ret_other", "ret_one", "ret_zero", "is_int"}

BothRun == tres # NotRun /\ vres # NotRun

\* C24: UserValidator(f) passes v (test returns True, validate returns)
\* exactly when f(v) is truthy and fails v (test returns False, validate
\* raises ValidationError) exactly when f(v) is falsy, whatever f returns.
C24_PredicateByTruthValue ==
    (BothRun /\ vd.kind = "User" /\ vd.func \in PlainFuncs)
    => IF Truthy(ReturnValue(vd.func, val))
       THEN tres = Ok(TRUE, NoV) /\ vres.st = "ok"
       ELSE tres = Ok(FALSE, NoV) /\ vres.st = "raise"
            /\ vres.exc.kind = "ValidationError"

\* C24, amended: UserValidator(f) passes v, validate returning v itself,
\* when f(v) is True or None; it fails v when f(v) is False; when f(v) is
\* any other object that is no generator, truthy or falsy, test and validate
\* both raise TypeError.
C24_PredicateByBoolOrNone ==
    (BothRun /\ vd.kind = "User" /\ vd.func \in PlainFuncs)
    => CASE ReturnValue(vd.func, val) \in {TrueV, NoneV} ->
                tres = Ok(TRUE, NoV) /\ vres = Ok(TRUE, val)
         [] ReturnValue(vd.func, val) = FalseV ->
                /\ tres = Ok(FALSE, NoV)
                /\ vres = Raise(ValidationError(vctx.func, vctx.param, <<>>, <<>>,
                                                <<vd.func, "returned False">>, <<>>))
         [] OTHER ->
                tres = Raise(OtherError("TypeError")) /\ vres = Raise(OtherError("TypeError"))

C24_Witness ==
    /\ vd = UserValidator("ret_none") /\ val = Int1
    /\ tres = Ok(TRUE, NoV) /\ vres = Ok(TRUE, Int1)

\* C25: an assignment to an unknown option name raises KeyError when made
\* by item assignment and AttributeError when made by attribute assignment,
\* an assignment of a non-boolean to a boolean option raises TypeError, and
\* in each case every stored setting keeps the value it had.
C25_RejectedAssignments ==
    [][sop'.via \in {"setitem", "setattr"}
       => /\ gset' = gset /\ mset' = mset
          /\ sres' = CASE sop'.key \in all_settings -> "TypeError"
                       [] sop'.via = "setitem" -> "KeyError"
                       [] OTHER -> "AttributeError"]_vars

\* C26: over any interleaving of calls of any number of wrappers, the
\* validators of each wrapper are compiled at most once, and every call of
\* the wrapper uses the validators compiled then.
C26_CompiledAtMostOnce == \A w \in Slots : compiled[w] <= 1

\* C27: validating a value against Iterator-of(child) or Iterable-of(child)
\* pulls no item from the underlying sequence; afterwards the underlying
\* iterator has handed out one item for each pull made on the proxy
\* iterator, as long as it had one to hand out.
C27_PulledOnDemand ==
    /\ ipc \in {"new", "proxy", "raised"} => (pulled = 0 /\ pulls = 0)
    /\ pulled = Min(pulls, Len(items))

\* the second iteration of an iterable proxy over a list, two pulls made
C27_Witness ==
    /\ ikind = "Iterable" /\ isrc = ListV /\ iters = 2 /\ Len(items) = 3
    /\ pulls = 2 /\ pulled = 2 /\ Len(got) = 2

\* C28 as stated: each iteration of an Iterable-of(child) proxy starts a new
\* validating iterator over a new iteration of the source, and over a
\* re-iterable source whose items all conform every complete iteration
\* returns the items of the source, in order.
C28_EachIterationYieldsSource ==
    (ikind = "Iterable" /\ isrc = ListV /\ BadItems = {})
    => \A i \in DOMAIN done : done[i] = items

\* C28 amended: every complete iteration returns, in order, the items of the
\* source as the child hands them back, that is each item itself unless the
\* child supplies a replacement for it.
C28_EachIterationYieldsValidated ==
    (ikind = "Iterable" /\ isrc = ListV /\ BadItems = {})
    => /\ \A i \in DOMAIN done : done[i] = Returned(Len(items))
       /\ ipc = "run" => got = Returned(pulled)

\* [1, 2] iterated to the end twice
C28_Witness ==
    /\ ikind = "Iterable" /\ isrc = ListV /\ items = <<Int1, Int2>>
    /\ done = <<items, items>>

\* C29: a callable that passed a Callable validator with N parameter
\* validators, also one that declares further defaulted or variadic
\* positional parameters, can be called through the proxy with exactly N
\* conforming positional arguments: no arity violation is raised and the
\* callable is invoked.
C29_AcceptedCallableTakesNArguments ==
    (pcall.st # "none" /\ Len(pcall.args) = NumParams /\ ViolatingArgs = {})
    => pcall.ninv = 1

\* the parameters of the last call that its arguments name, by position or keyword
Supplied ==
    {ParamsOfKind(LastFunc.sig, {"POS"})[i].name :
        i \in 1..Min(Len(last.args), Len(ParamsOfKind(LastFunc.sig, {"POS"})))}
    \cup DOMAIN last.kwargs

\* the named parameters of the last call whose value, given or default,
\* violates the declared shape
ViolatingNamed ==
    {i \in DOMAIN LastFunc.sig :
        /\ LastFunc.sig[i].kind \in {"POS", "KWONLY"}
        /\ ~Conforms(LastFunc.sig[i].ann, last.direct.pos[LastFunc.sig[i].name])}

\* the arguments given all conform, and a default that was applied does not
BadDefaultOnly ==
    /\ ViolatingNamed # {}
    /\ \A i \in ViolatingNamed : LastFunc.sig[i].name \notin Supplied
    /\ \A i \in DOMAIN LastFunc.sig :
          LastFunc.sig[i].kind = "VARPOS" =>
              \A j \in DOMAIN last.direct.var :
                  Conforms(LastFunc.sig[i].ann, last.direct.var[j])

\* C30: with match_args on, the default applied for a parameter the call
\* does not supply is validated like an argument, whatever match_defaults
\* is: a default that violates the parameter's shape raises a
\* ValidationError naming the parameter, and the function is not invoked.
C30_DefaultsValidatedAsArguments ==
    (/\ last.w # "-" /\ last.via = "call"
     /\ LastOptions["match_args"] = "True"
     /\ last.direct.ok
     /\ BadDefaultOnly)
    => /\ last.st = "raise"
       /\ last.exc.kind = "ValidationError"
       /\ last.exc.param =
             <<LastFunc.sig[CHOOSE i \in ViolatingNamed :
                                \A j \in ViolatingNamed : i <= j].name>>
       /\ last.ninv = 0

====
